---- MODULE Spec2Model ----
(***************************************************************************)
(* Model of the NCCN test-notation parser of the UAT toolkit               *)
(* (src/importers/nccn_notation_parser.py).                                *)
(*                                                                         *)
(* A Python str is modelled as a tuple of one-character strings, so that   *)
(* the regular expressions, strip(), upper()/lower() and the substring     *)
(* tests of the parser are computed character by character, the way the    *)
(* code computes them.  Optional[T] is modelled as a tuple of length 0     *)
(* (None) or 1 (a value).                                                  *)
(***************************************************************************)
EXTENDS Integers, Sequences, FiniteSets, TLC

VARIABLES
    notation,   \* the argument `notation` of the call under analysis
    context,    \* the arguments (target_rule, platform) of the caller's parse_test_notation call
    pc,         \* position of the caller: idle, parsed, serialized, validated, raised
    parsed,     \* value returned by parse_test_notation (NotCalled before the call)
    as_dict,    \* value returned by notation_to_dict (NotCalled before the call)
    report,     \* value returned by validate_notation (NotCalled before the call)
    calls,      \* functions of the module entered by the caller's last call, in order
    invocations,    \* concurrent callers: each thread's invocation in flight
    heap,           \* the list objects allocated so far, by identity
    tables,         \* the module-level dicts OUTCOME_MAP, RELATIONSHIP_MAP, CANCER_TYPE_MAP
    started,        \* number of invocations started so far
    first_result,   \* per call (function, notation): the first value returned for it
    uat_cycles,         \* table uat_cycles: cycle_id -> row
    pre_uat_gate_items, \* table pre_uat_gate_items: the rows in item_id order
    audit_history,      \* table audit_history: the rows in insertion order
    db_call,            \* the last UATDatabase call: method, arguments, value returned
    uat_test_cases,     \* table uat_test_cases: test_id -> row
    import_call         \* the last import_results call: file, argument, value returned

\* the state of the single caller
parser_vars == <<notation, context, pc, parsed, as_dict, report, calls>>

\* the state of the concurrent callers
thread_vars == <<invocations, heap, tables, started, first_result>>

\* the shared database and the last calls made on it
storage_vars ==
    <<uat_cycles, pre_uat_gate_items, audit_history, db_call, uat_test_cases, import_call>>

vars == <<parser_vars, thread_vars, storage_vars>>

(***************************************************************************)
(* Bounds of the model                                                     *)
(***************************************************************************)
\* number of vocabulary pieces concatenated into one notation (notation-level inputs)
MaxPieces == 3

\* number of attribute pieces appended to one condition (condition-level inputs)
MaxAttrs == 3

\* number of digits of a short number in the digit-run inputs
MaxShortDigits == 3

\* how many digits beyond the interpreter's limit the long digit runs go
MaxExcessDigits == 2

\* number of pieces in the text that follows the outcome position (outcome-level inputs)
MaxTailPieces == 2

\* number of pieces in the text that follows the relationship position (segment-level inputs)
MaxTextPieces == 2

\* number of invocations the concurrent callers start
MaxCalls == 3

\* number of rows the audit trail holds before the gate is signed off no more
MaxGateAudit == 2

\* number of rows the audit trail holds before no more decision is recorded
MaxDecisionAudit == 3

\* number of results in one imported file
MaxResults == 2

\* number of imports that reach the database after the first one
MaxImports == 1

(***************************************************************************)
(* Python values                                                           *)
(***************************************************************************)
None == <<>>

Some(x) == <<x>>

\* a call that returned value v
Ok(v) == [exc |-> "", val |-> v]

\* a call that raised exception e
Raise(e) == [exc |-> e, val |-> None]

\* the values of a function or sequence
Range(f) == {f[x] : x \in DOMAIN f}

Min(S) == CHOOSE x \in S : \A y \in S : x <= y

Max(S) == CHOOSE x \in S : \A y \in S : x >= y

(***************************************************************************)
(* Characters and str methods                                              *)
(***************************************************************************)
UPPER == [a |-> "A", b |-> "B", c |-> "C", d |-> "D", e |-> "E", f |-> "F",
          g |-> "G", h |-> "H", i |-> "I", j |-> "J", k |-> "K", l |-> "L",
          m |-> "M", n |-> "N", o |-> "O", p |-> "P", q |-> "Q", r |-> "R",
          s |-> "S", t |-> "T", u |-> "U", v |-> "V", w |-> "W", x |-> "X",
          y |-> "Y", z |-> "Z"]

LOWER == [A |-> "a", B |-> "b", C |-> "c", D |-> "d", E |-> "e", F |-> "f",
          G |-> "g", H |-> "h", I |-> "i", J |-> "j", K |-> "k", L |-> "l",
          M |-> "m", N |-> "n", O |-> "o", P |-> "p", Q |-> "q", R |-> "r",
          S |-> "s", T |-> "t", U |-> "u", V |-> "v", W |-> "w", X |-> "x",
          Y |-> "y", Z |-> "z"]

upper_char(c) == IF c \in DOMAIN UPPER THEN UPPER[c] ELSE c

lower_char(c) == IF c \in DOMAIN LOWER THEN LOWER[c] ELSE c

\* str.upper()
upper(s) == IF s = <<>> THEN <<>> ELSE [i \in 1..Len(s) |-> upper_char(s[i])]

\* what str.lower() makes of one character: LATIN CAPITAL LETTER I WITH DOT
\* ABOVE, written "U+0130", becomes i followed by COMBINING DOT ABOVE, and
\* str.upper() leaves it as it is
LowerOf(c) == IF c = "U+0130" THEN <<"i", "U+0307">> ELSE <<lower_char(c)>>

RECURSIVE lower(_)
\* str.lower()
lower(s) == IF s = <<>> THEN <<>> ELSE LowerOf(Head(s)) \o lower(Tail(s))

\* \s of re, and the characters str.strip() removes
IsSpace(c) == c \in {" ", "\t", "\n"}

\* \d of re
IsDigit(c) == c \in {"0", "1", "2", "3", "4", "5", "6", "7", "8", "9"}

\* [:\s] of re
IsColonOrSpace(c) == c = ":" \/ IsSpace(c)

\* \w of re
IsWordChar(c) ==
    c \in DOMAIN UPPER \/ c \in DOMAIN LOWER \/ IsDigit(c) \/ c = "_" \/ c = "U+0130"

\* character c belongs to the named character class of re
InClass(class, c) ==
    CASE class = "\\s" -> IsSpace(c)
      [] class = "\\d" -> IsDigit(c)
      [] class = "[:\\s]" -> IsColonOrSpace(c)
      [] class = "[^)]" -> c # ")"
      [] class = "." -> c # "\n"

\* a greedy character-class repetition started at k: the first index at or
\* after k that is past the end of s or holds a character outside the class
SpanEnd(s, k, class) ==
    CHOOSE e \in k..(Len(s) + 1) :
        /\ (e = Len(s) + 1 \/ ~InClass(class, s[e]))
        /\ \A i \in k..(e - 1) : InClass(class, s[i])

\* str.strip()
strip(s) ==
    LET b == SpanEnd(s, 1, "\\s")
    IN  IF b > Len(s) THEN <<>>
        ELSE LET e == CHOOSE e \in b..Len(s) :
                          ~IsSpace(s[e]) /\ \A i \in (e + 1)..Len(s) : IsSpace(s[i])
             IN  SubSeq(s, b, e)

\* s[k:] (k counted from 1)
From(s, k) == SubSeq(s, k, Len(s))

\* pat (written in upper case) occurs in s at index k, ignoring case
StartsWithCI(s, k, pat) ==
    /\ k >= 1
    /\ k + Len(pat) - 1 <= Len(s)
    /\ \A j \in 1..Len(pat) : upper_char(s[k + j - 1]) = pat[j]

\* re.IGNORECASE for one character and a letter of the pattern (written in
\* upper case): besides the two cases of the letter, U+0130 matches I
IgnoreCaseEq(c, p) == upper_char(c) = p \/ (c = "U+0130" /\ p = "I")

\* pat (written in upper case) matches in s at index k under re.IGNORECASE
MatchesIgnoreCase(s, k, pat) ==
    /\ k >= 1
    /\ k + Len(pat) - 1 <= Len(s)
    /\ \A j \in 1..Len(pat) : IgnoreCaseEq(s[k + j - 1], pat[j])

\* pat in s
Contains(s, pat) ==
    \E k \in 1..(Len(s) - Len(pat) + 1) :
        \A j \in 1..Len(pat) : s[k + j - 1] = pat[j]

\* dict.get(key, default)
Get(map, key, default) == IF key \in DOMAIN map THEN map[key] ELSE default

\* the default of sys.get_int_max_str_digits(): int() of a longer digit
\* string raises ValueError
INT_MAX_STR_DIGITS == 4300

DigitValue(c) ==
    CASE c = "0" -> 0 [] c = "1" -> 1 [] c = "2" -> 2 [] c = "3" -> 3
      [] c = "4" -> 4 [] c = "5" -> 5 [] c = "6" -> 6 [] c = "7" -> 7
      [] c = "8" -> 8 [] c = "9" -> 9

RECURSIVE DecimalValue(_)
DecimalValue(d) ==
    IF d = <<>> THEN 0
    ELSE 10 * DecimalValue(SubSeq(d, 1, Len(d) - 1)) + DigitValue(d[Len(d)])

\* int(d) for a string of digits
int(d) ==
    IF Len(d) > INT_MAX_STR_DIGITS THEN Raise("ValueError") ELSE Ok(DecimalValue(d))

(***************************************************************************)
(* The regular expressions of the parser                                   *)
(***************************************************************************)
\* token\s*: matched at the start of s: the index after the colon, or 0
TokenColonEnd(s, token) ==
    IF ~MatchesIgnoreCase(s, 1, token) THEN 0
    ELSE LET c == SpanEnd(s, Len(token) + 1, "\\s")
         IN  IF c <= Len(s) /\ s[c] = ":" THEN c + 1 ELSE 0

\* \s*(.+)$ matched from index from to the end of s: the indices of the
\* first and last character of the group, or <<0, 0>>
RestGroup(s, from) ==
    LET w == SpanEnd(s, from, "\\s")
        LineEnd(p) == SpanEnd(s, p, ".")
        AtEnd(q) == q = Len(s) + 1 \/ q = Len(s)
        ok == {p \in from..w : p <= Len(s) /\ LineEnd(p) > p /\ AtEnd(LineEnd(p))}
    IN  IF ok = {} THEN <<0, 0>> ELSE <<Max(ok), LineEnd(Max(ok)) - 1>>

\* \s+AND\s+ matched at i: the index after the match, or 0
AndMatchEnd(s, i) ==
    IF ~IsSpace(s[i]) THEN 0
    ELSE LET a == SpanEnd(s, i, "\\s")
         IN  IF MatchesIgnoreCase(s, a, <<"A", "N", "D">>) /\ a + 3 <= Len(s) /\ IsSpace(s[a + 3])
             THEN SpanEnd(s, a + 3, "\\s") ELSE 0

\* \(([^)]+)\) matched at i: the index after the closing parenthesis, or 0
NotesMatchEnd(s, i) ==
    IF s[i] # "(" THEN 0
    ELSE LET close == SpanEnd(s, i + 1, "[^)]")
         IN  IF close <= Len(s) /\ close >= i + 2 THEN close + 1 ELSE 0

\* age[:\s]+(\d+) matched at i: the index of the first digit, or 0
AgeDigits(s, i) ==
    IF ~MatchesIgnoreCase(s, i, <<"A", "G", "E">>) THEN 0
    ELSE LET b == SpanEnd(s, i + 3, "[:\\s]")
         IN  IF b > i + 3 /\ b <= Len(s) /\ IsDigit(s[b]) THEN b ELSE 0

\* age[:\s]+(\d+) matched at i: the index after the match, or 0
AgeMatchEnd(s, i) ==
    LET b == AgeDigits(s, i) IN IF b = 0 THEN 0 ELSE SpanEnd(s, b, "\\d")

\* gleason[:\s]*(?:score[:\s]*)?\s*(\d+) matched at i: the index of the
\* first digit, or 0
GleasonDigits(s, i) ==
    IF ~MatchesIgnoreCase(s, i, <<"G", "L", "E", "A", "S", "O", "N">>) THEN 0
    ELSE LET b == SpanEnd(s, i + 7, "[:\\s]")
             c == IF MatchesIgnoreCase(s, b, <<"S", "C", "O", "R", "E">>)
                  THEN SpanEnd(s, b + 5, "[:\\s]") ELSE b
         IN  IF c <= Len(s) /\ IsDigit(s[c]) THEN c ELSE 0

\* gleason[:\s]*(?:score[:\s]*)?\s*(\d+) matched at i: the index after the match, or 0
GleasonMatchEnd(s, i) ==
    LET c == GleasonDigits(s, i) IN IF c = 0 THEN 0 ELSE SpanEnd(s, c, "\\d")

\* ,?\s* followed by a pattern: the index where the pattern has to start
AfterCommaSpace(s, i) ==
    SpanEnd(s, IF s[i] = "," THEN i + 1 ELSE i, "\\s")

\* ,?\s*age[:\s]+\d+ matched at i: the index after the match, or 0
AgeSubEnd(s, i) == AgeMatchEnd(s, AfterCommaSpace(s, i))

\* ,?\s*gleason[:\s]*(?:score[:\s]*)?\s*\d+ matched at i: the index after the match, or 0
GleasonSubEnd(s, i) == GleasonMatchEnd(s, AfterCommaSpace(s, i))

\* \s*,\s*$ matched at i: the index after the match, or 0
TrailingCommaEnd(s, i) ==
    LET k == SpanEnd(s, i, "\\s")
    IN  IF k <= Len(s) /\ s[k] = "," /\ SpanEnd(s, k + 1, "\\s") = Len(s) + 1
        THEN Len(s) + 1 ELSE 0

\* the match tables of the patterns on s: at each index i, the index after
\* the match that starts at i, or 0
AndMatches(s) ==
    IF s = <<>> THEN <<>> ELSE [i \in 1..Len(s) |-> AndMatchEnd(s, i)]

NotesMatches(s) ==
    IF s = <<>> THEN <<>> ELSE [i \in 1..Len(s) |-> NotesMatchEnd(s, i)]

AgeMatches(s) ==
    IF s = <<>> THEN <<>> ELSE [i \in 1..Len(s) |-> AgeMatchEnd(s, i)]

GleasonMatches(s) ==
    IF s = <<>> THEN <<>> ELSE [i \in 1..Len(s) |-> GleasonMatchEnd(s, i)]

AgeSubMatches(s) ==
    IF s = <<>> THEN <<>> ELSE [i \in 1..Len(s) |-> AgeSubEnd(s, i)]

GleasonSubMatches(s) ==
    IF s = <<>> THEN <<>> ELSE [i \in 1..Len(s) |-> GleasonSubEnd(s, i)]

TrailingCommaMatches(s) ==
    IF s = <<>> THEN <<>> ELSE [i \in 1..Len(s) |-> TrailingCommaEnd(s, i)]

\* re.search on a match table: the start of the leftmost match at or after
\* index from, 0 when there is none
FirstMatch(matches, from) ==
    LET starts == {i \in from..Len(matches) : matches[i] # 0}
    IN  IF starts = {} THEN 0 ELSE Min(starts)

RECURSIVE re_sub_from(_, _, _)
\* re.sub(pattern, '', s) from index from on, for the match table of the pattern
re_sub_from(s, from, matches) ==
    LET i == FirstMatch(matches, from)
    IN  IF i = 0 THEN From(s, from)
        ELSE SubSeq(s, from, i - 1) \o re_sub_from(s, matches[i], matches)

RECURSIVE re_split_from(_, _, _)
\* re.split(pattern, s) from index from on, for the match table of the pattern
re_split_from(s, from, matches) ==
    LET i == FirstMatch(matches, from)
    IN  IF i = 0 THEN <<From(s, from)>>
        ELSE <<SubSeq(s, from, i - 1)>> \o re_split_from(s, matches[i], matches)

(***************************************************************************)
(* Mapping constants                                                       *)
(***************************************************************************)
RELATIONSHIP_MAP ==
    (<<"P", "H", "X">> :> "patient") @@ (<<"P", "A", "T", "I", "E", "N", "T">> :> "patient") @@
    (<<"F", "D", "R">> :> "first_degree") @@ (<<"F", "I", "R", "S", "T", " ", "D", "E", "G", "R", "E", "E">> :> "first_degree") @@
    (<<"S", "D", "R">> :> "second_degree") @@ (<<"S", "E", "C", "O", "N", "D", " ", "D", "E", "G", "R", "E", "E">> :> "second_degree") @@
    (<<"T", "D", "R">> :> "third_degree") @@ (<<"T", "H", "I", "R", "D", " ", "D", "E", "G", "R", "E", "E">> :> "third_degree")

OUTCOME_MAP ==
    (<<"P", "O", "S">> :> "positive") @@ (<<"P", "O", "S", "I", "T", "I", "V", "E">> :> "positive") @@
    (<<"N", "E", "G">> :> "negative") @@ (<<"N", "E", "G", "A", "T", "I", "V", "E">> :> "negative") @@
    (<<"D", "E", "P">> :> "deprecated") @@ (<<"D", "E", "P", "R", "E", "C", "A", "T", "E", "D">> :> "deprecated")

CANCER_TYPE_MAP ==
    (<<"P", "R", "O", "S", "T", "A", "T", "E">> :> <<"P", "r", "o", "s", "t", "a", "t", "e">>) @@ (<<"P", "R", "O", "S", "T", "A", "T", "E", " ", "C", "A", "N", "C", "E", "R">> :> <<"P", "r", "o", "s", "t", "a", "t", "e">>) @@
    (<<"B", "R", "E", "A", "S", "T">> :> <<"B", "r", "e", "a", "s", "t">>) @@ (<<"B", "R", "E", "A", "S", "T", " ", "C", "A", "N", "C", "E", "R">> :> <<"B", "r", "e", "a", "s", "t">>) @@
    (<<"M", "A", "L", "E", " ", "B", "R", "E", "A", "S", "T">> :> <<"M", "a", "l", "e", " ", "B", "r", "e", "a", "s", "t">>) @@ (<<"M", "A", "L", "E", " ", "B", "R", "E", "A", "S", "T", " ", "C", "A", "N", "C", "E", "R">> :> <<"M", "a", "l", "e", " ", "B", "r", "e", "a", "s", "t">>) @@
    (<<"C", "O", "L", "O", "N">> :> <<"C", "o", "l", "o", "r", "e", "c", "t", "a", "l">>) @@ (<<"C", "O", "L", "O", "N", " ", "C", "A", "N", "C", "E", "R">> :> <<"C", "o", "l", "o", "r", "e", "c", "t", "a", "l">>) @@
    (<<"C", "O", "L", "O", "R", "E", "C", "T", "A", "L">> :> <<"C", "o", "l", "o", "r", "e", "c", "t", "a", "l">>) @@ (<<"C", "O", "L", "O", "R", "E", "C", "T", "A", "L", " ", "C", "A", "N", "C", "E", "R">> :> <<"C", "o", "l", "o", "r", "e", "c", "t", "a", "l">>) @@
    (<<"R", "E", "C", "T", "A", "L">> :> <<"C", "o", "l", "o", "r", "e", "c", "t", "a", "l">>) @@
    (<<"O", "V", "A", "R", "I", "A", "N">> :> <<"O", "v", "a", "r", "i", "a", "n">>) @@ (<<"O", "V", "A", "R", "I", "A", "N", " ", "C", "A", "N", "C", "E", "R">> :> <<"O", "v", "a", "r", "i", "a", "n">>) @@
    (<<"O", "V", "A", "R", "Y">> :> <<"O", "v", "a", "r", "i", "a", "n">>) @@
    (<<"E", "N", "D", "O", "M", "E", "T", "R", "I", "A", "L">> :> <<"E", "n", "d", "o", "m", "e", "t", "r", "i", "a", "l">>) @@ (<<"E", "N", "D", "O", "M", "E", "T", "R", "I", "A", "L", " ", "C", "A", "N", "C", "E", "R">> :> <<"E", "n", "d", "o", "m", "e", "t", "r", "i", "a", "l">>) @@
    (<<"U", "T", "E", "R", "I", "N", "E">> :> <<"E", "n", "d", "o", "m", "e", "t", "r", "i", "a", "l">>) @@
    (<<"P", "A", "N", "C", "R", "E", "A", "T", "I", "C">> :> <<"P", "a", "n", "c", "r", "e", "a", "t", "i", "c">>) @@ (<<"P", "A", "N", "C", "R", "E", "A", "T", "I", "C", " ", "C", "A", "N", "C", "E", "R">> :> <<"P", "a", "n", "c", "r", "e", "a", "t", "i", "c">>) @@
    (<<"P", "A", "N", "C", "R", "E", "A", "S">> :> <<"P", "a", "n", "c", "r", "e", "a", "t", "i", "c">>) @@
    (<<"R", "E", "N", "A", "L">> :> <<"K", "i", "d", "n", "e", "y">>) @@ (<<"R", "E", "N", "A", "L", " ", "C", "A", "N", "C", "E", "R">> :> <<"K", "i", "d", "n", "e", "y">>) @@
    (<<"K", "I", "D", "N", "E", "Y">> :> <<"K", "i", "d", "n", "e", "y">>) @@ (<<"K", "I", "D", "N", "E", "Y", " ", "C", "A", "N", "C", "E", "R">> :> <<"K", "i", "d", "n", "e", "y">>) @@
    (<<"M", "E", "S", "O", "T", "H", "E", "L", "I", "O", "M", "A">> :> <<"M", "e", "s", "o", "t", "h", "e", "l", "i", "o", "m", "a">>) @@
    (<<"U", "V", "E", "A", "L", " ", "M", "E", "L", "A", "N", "O", "M", "A">> :> <<"U", "v", "e", "a", "l", " ", "M", "e", "l", "a", "n", "o", "m", "a">>) @@
    (<<"M", "E", "L", "A", "N", "O", "M", "A", " ", "O", "F", " ", "E", "Y", "E">> :> <<"U", "v", "e", "a", "l", " ", "M", "e", "l", "a", "n", "o", "m", "a">>) @@
    (<<"E", "Y", "E", " ", "M", "E", "L", "A", "N", "O", "M", "A">> :> <<"U", "v", "e", "a", "l", " ", "M", "e", "l", "a", "n", "o", "m", "a">>) @@
    (<<"G", "A", "S", "T", "R", "I", "C">> :> <<"G", "a", "s", "t", "r", "i", "c">>) @@ (<<"G", "A", "S", "T", "R", "I", "C", " ", "C", "A", "N", "C", "E", "R">> :> <<"G", "a", "s", "t", "r", "i", "c">>) @@
    (<<"S", "T", "O", "M", "A", "C", "H">> :> <<"G", "a", "s", "t", "r", "i", "c">>)

(***************************************************************************)
(* Data classes                                                            *)
(***************************************************************************)
\* CancerCondition(cancer_type), the other fields at their defaults
CancerCondition(cancer_type) ==
    [class |-> "CancerCondition", cancer_type |-> cancer_type,
     age_diagnosed |-> None, gleason_score |-> None, is_aggressive |-> None,
     is_metastatic |-> None, additional_notes |-> None]

\* RelativeEntry(relationship, relationship_type, conditions=..., is_same_relative=...)
RelativeEntry(relationship, relationship_type, conditions, is_same_relative) ==
    [class |-> "RelativeEntry", relationship |-> relationship,
     relationship_type |-> relationship_type, specific_relative |-> None,
     conditions |-> conditions, is_same_relative |-> is_same_relative]

\* ParsedTestCase that keeps the trimmed notation
ParsedTestCase_trimmed_raw(expected_outcome, raw_notation, target_rule, platform) ==
    [class |-> "ParsedTestCase", expected_outcome |-> expected_outcome,
     entries |-> <<>>, raw_notation |-> strip(raw_notation), target_rule |-> target_rule,
     platform |-> platform, parse_errors |-> <<>>]

\* ParsedTestCase(expected_outcome, raw_notation=..., target_rule=..., platform=...)
ParsedTestCase(expected_outcome, raw_notation, target_rule, platform) ==
    [class |-> "ParsedTestCase", expected_outcome |-> expected_outcome,
     entries |-> <<>>, raw_notation |-> raw_notation, target_rule |-> target_rule,
     platform |-> platform, parse_errors |-> <<>>]

(***************************************************************************)
(* _parse_condition                                                        *)
(***************************************************************************)
\* lines 395-410 of _parse_condition for the parenthetical that starts at
\* index i of condition_str (0: there is none): the fields they set and the
\* condition string they leave
NotesStep(result, condition_str, i) ==
    IF i = 0 THEN [result |-> result, condition_str |-> condition_str]
    ELSE LET end == NotesMatchEnd(condition_str, i)
             group == SubSeq(condition_str, i + 1, end - 2)
             notes == lower(group)
             r1 == [result EXCEPT !.additional_notes = Some(group)]
             r2 == IF Contains(notes, <<"a", "g", "g", "r", "e", "s", "s", "i", "v", "e">>)
                   THEN [r1 EXCEPT !.is_aggressive = Some(TRUE)]
                   ELSE IF Contains(notes, <<"n", "o", "n", "-", "a", "g", "g", "r", "e", "s", "s", "i", "v", "e">>)
                           \/ Contains(notes, <<"n", "o", "n", " ", "a", "g", "g", "r", "e", "s", "s", "i", "v", "e">>)
                        THEN [r1 EXCEPT !.is_aggressive = Some(FALSE)]
                        ELSE r1
             r3 == IF Contains(notes, <<"m", "e", "t", "a", "s", "t", "a", "t", "i", "c">>)
                   THEN [r2 EXCEPT !.is_metastatic = Some(TRUE)]
                   ELSE r2
         IN  [result |-> r3,
              condition_str |-> SubSeq(condition_str, 1, i - 1)
                                \o From(condition_str, end)]

\* the parenthetical step of _parse_condition (lines 393-410) applied to a
\* fresh result
ParentheticalStep(result, condition_str) ==
    NotesStep(result, condition_str, FirstMatch(NotesMatches(condition_str), 1))

\* InferAggressive with the threshold one too high (> 7)
InferAggressive_above_7(result) ==
    IF result.is_aggressive = None /\ result.gleason_score[1] > 7
    THEN [result EXCEPT !.is_aggressive = Some(TRUE)]
    ELSE result

\* InferAggressive without the test that is_aggressive is still unset
InferAggressive_overwrite(result) ==
    [result EXCEPT !.is_aggressive = Some(result.gleason_score[1] >= 7)]

\* the Gleason inference of _parse_condition (lines 423-425)
InferAggressive(result) ==
    IF result.is_aggressive = None /\ result.gleason_score[1] >= 7
    THEN [result EXCEPT !.is_aggressive = Some(TRUE)]
    ELSE result

\* line 430: the age fragments removed
WithoutAge(cancer_str) == re_sub_from(cancer_str, 1, AgeSubMatches(cancer_str))

\* line 431: the Gleason fragments removed
WithoutGleason(cancer_str) == re_sub_from(cancer_str, 1, GleasonSubMatches(cancer_str))

\* line 432: the trailing comma removed
WithoutTrailingComma(cancer_str) ==
    re_sub_from(cancer_str, 1, TrailingCommaMatches(cancer_str))

\* cancer_str of _parse_condition (lines 429-433): the condition string
\* without its age and Gleason fragments and its trailing comma, stripped
CancerStr(condition_str) ==
    strip(WithoutTrailingComma(WithoutGleason(WithoutAge(condition_str))))

\* line 437: the table's value, or cancer_str itself
NormalizedType(cancer_str) == Get(CANCER_TYPE_MAP, upper(cancer_str), cancer_str)

\* the cancer type of _parse_condition (lines 429-437)
CancerType(condition_str) == NormalizedType(CancerStr(condition_str))

\* line 416 for the value or exception of int()
SetAge(result, age) ==
    IF age.exc # "" THEN Raise(age.exc)
    ELSE Ok([result EXCEPT !.age_diagnosed = Some(age.val)])

\* the age step (lines 414-416); i is where the leftmost match of the age
\* pattern starts in condition_str, 0 when there is none
AgeStep(result, condition_str, i) ==
    IF i = 0 THEN Ok(result)
    ELSE SetAge(result, int(SubSeq(condition_str, AgeDigits(condition_str, i),
                                   AgeMatchEnd(condition_str, i) - 1)))

\* lines 422-425 for the value or exception of int()
SetGleason(result, gleason) ==
    IF gleason.exc # "" THEN Raise(gleason.exc)
    ELSE Ok(InferAggressive([result EXCEPT !.gleason_score = Some(gleason.val)]))

\* the Gleason step (lines 420-425) after the age step returned or raised r;
\* i is where the leftmost match of the Gleason pattern starts, 0 when there
\* is none
GleasonStep(r, condition_str, i) ==
    IF r.exc # "" \/ i = 0 THEN r
    ELSE SetGleason(r.val, int(SubSeq(condition_str, GleasonDigits(condition_str, i),
                                      GleasonMatchEnd(condition_str, i) - 1)))

\* the cancer-type step (lines 429-439) after the earlier steps returned or
\* raised r
CancerTypeStep(r, condition_str) ==
    IF r.exc # "" THEN r
    ELSE Ok([r.val EXCEPT !.cancer_type = CancerType(condition_str)])

\* lines 412-439 for the result and the condition string the parenthetical
\* step left
AttributeSteps(result, condition_str) ==
    CancerTypeStep(
        GleasonStep(
            AgeStep(result, condition_str, FirstMatch(AgeMatches(condition_str), 1)),
            condition_str, FirstMatch(GleasonMatches(condition_str), 1)),
        condition_str)

\* lines 412-439 for the record the parenthetical step returned
AfterNotes(p) == AttributeSteps(p.result, p.condition_str)

_parse_condition(condition_str) ==
    IF condition_str = <<>> THEN Ok(CancerCondition(<<"U", "n", "k", "n", "o", "w", "n">>))
    ELSE AfterNotes(ParentheticalStep(CancerCondition(<<"U", "n", "k", "n", "o", "w", "n">>), condition_str))

(***************************************************************************)
(* _extract_outcome, _split_by_and, _parse_single_entry                    *)
(***************************************************************************)
\* the alternatives of the outcome pattern, in the order the pattern tries them
OUTCOME_TOKENS == <<<<"P", "O", "S">>, <<"N", "E", "G">>, <<"P", "O", "S", "I", "T", "I", "V", "E">>, <<"N", "E", "G", "A", "T", "I", "V", "E">>, <<"D", "E", "P">>, <<"D", "E", "P", "R", "E", "C", "A", "T", "E", "D">>>>

\* the alternatives of the relationship pattern, in the order the pattern tries them
RELATIONSHIP_TOKENS == <<<<"P", "H", "X">>, <<"F", "D", "R">>, <<"S", "D", "R">>, <<"T", "D", "R">>, <<"P", "A", "T", "I", "E", "N", "T">>>>

\* the alternatives of ^(POS|NEG|POSITIVE|NEGATIVE|DEP|DEPRECATED)\s*:\s*
\* that match notation_str
OutcomeMatches(notation_str) ==
    {t \in 1..Len(OUTCOME_TOKENS) : TokenColonEnd(notation_str, OUTCOME_TOKENS[t]) # 0}

\* lines 283-290 for the matching alternatives
OutcomeOf(notation_str, matching) ==
    IF matching # {}
    THEN LET token == OUTCOME_TOKENS[Min(matching)]
             end == SpanEnd(notation_str, TokenColonEnd(notation_str, token), "\\s")
             outcome_raw == upper(SubSeq(notation_str, 1, Len(token)))
         IN  <<Get(OUTCOME_MAP, outcome_raw, "unknown"), strip(From(notation_str, end))>>
    ELSE <<"unknown", notation_str>>

_extract_outcome(notation_str) == OutcomeOf(notation_str, OutcomeMatches(notation_str))

\* [p.strip() for p in parts if p.strip()] (line 312)
StrippedNonEmpty(parts) ==
    LET kept == SelectSeq(parts, LAMBDA p : strip(p) # <<>>)
    IN  [k \in 1..Len(kept) |-> strip(kept[k])]

_split_by_and(notation_str) ==
    StrippedNonEmpty(re_split_from(notation_str, 1, AndMatches(notation_str)))

\* ^(PHX|FDR|SDR|TDR|PATIENT)\s*:\s*(.+)$ on entry_str: the matching
\* alternatives (at most one token is a prefix of entry_str)
RelationshipMatches(entry_str) ==
    {t \in 1..Len(RELATIONSHIP_TOKENS) :
        LET c == TokenColonEnd(entry_str, RELATIONSHIP_TOKENS[t])
        IN  c # 0 /\ RestGroup(entry_str, c)[1] # 0}

\* WithoutSame that sees the prefix in lower case only
WithoutSame_lower_only(entry_str) ==
    IF Len(entry_str) >= 5 /\ SubSeq(entry_str, 1, 5) = <<"s", "a", "m", "e", " ">>
    THEN strip(From(entry_str, 6)) ELSE entry_str

\* entry_str without its "same " prefix (lines 335-338)
WithoutSame(entry_str) ==
    IF StartsWithCI(entry_str, 1, <<"S", "A", "M", "E", " ">>) THEN strip(From(entry_str, 6)) ELSE entry_str

\* match.group(2).strip() (line 356) for the matching alternative t
StrippedGroup(entry_str, t) ==
    LET g == RestGroup(entry_str, TokenColonEnd(entry_str, RELATIONSHIP_TOKENS[t]))
    IN  strip(SubSeq(entry_str, g[1], g[2]))

\* lines 346-362 for the matching alternatives: the string handed to
\* _parse_condition
MatchedConditionStr(entry_str, matching) ==
    IF matching = {} THEN entry_str ELSE StrippedGroup(entry_str, Min(matching))

\* the string _parse_single_entry hands to _parse_condition (lines 335-362)
ConditionStr(entry_str) ==
    MatchedConditionStr(WithoutSame(entry_str), RelationshipMatches(WithoutSame(entry_str)))

\* match.group(1).upper() (line 355) for the matching alternative t
Relationship(entry_str, t) == upper(SubSeq(entry_str, 1, Len(RELATIONSHIP_TOKENS[t])))

\* MatchedEntry whose fallback entry carries no condition
MatchedEntry_no_condition(entry_str, is_same, matching, condition) ==
    IF matching = {}
    THEN RelativeEntry(<<"P", "H", "X">>, "patient", <<>>, is_same)
    ELSE RelativeEntry(Relationship(entry_str, Min(matching)),
                       Get(RELATIONSHIP_MAP, Relationship(entry_str, Min(matching)),
                           "unknown"),
                       <<condition>>, is_same)

\* lines 346-369 for the matching alternatives and the condition
\* _parse_condition returned
MatchedEntry(entry_str, is_same, matching, condition) ==
    IF matching = {}
    THEN RelativeEntry(<<"P", "H", "X">>, "patient", <<condition>>, is_same)
    ELSE RelativeEntry(Relationship(entry_str, Min(matching)),
                       Get(RELATIONSHIP_MAP, Relationship(entry_str, Min(matching)),
                           "unknown"),
                       <<condition>>, is_same)

\* lines 334-369 for what _parse_condition returned or raised
EntryWith(entry_str, condition) ==
    IF condition.exc # "" THEN Raise(condition.exc)
    ELSE Ok(Some(MatchedEntry(WithoutSame(entry_str),
                              StartsWithCI(entry_str, 1, <<"S", "A", "M", "E", " ">>),
                              RelationshipMatches(WithoutSame(entry_str)),
                              condition.val)))

\* the entry _parse_single_entry builds for a non-empty entry_str (lines 334-369)
EntryOf(entry_str) == EntryWith(entry_str, _parse_condition(ConditionStr(entry_str)))

\* _parse_single_entry that gives up on a segment without relationship token
_parse_single_entry_unmatched_fails(entry_str) ==
    IF entry_str = <<>> \/ RelationshipMatches(WithoutSame(entry_str)) = {}
    THEN Ok(None) ELSE EntryOf(entry_str)

\* returns Some(entry), or None when entry_str is empty
_parse_single_entry(entry_str) ==
    IF entry_str = <<>> THEN Ok(None) ELSE EntryOf(entry_str)

(***************************************************************************)
(* parse_test_notation                                                     *)
(***************************************************************************)
\* lines 256-259: the result with the entry appended, or with the error
\* recorded when _parse_single_entry returned None
WithEntry(result, entry_str, entry) ==
    IF entry # None
    THEN [result EXCEPT !.entries = Append(@, entry[1])]
    ELSE [result EXCEPT !.parse_errors =
             Append(@, <<"F", "a", "i", "l", "e", "d", " ", "t", "o", " ", "p", "a", "r", "s", "e", " ", "e", "n", "t", "r", "y", ":", " ">> \o entry_str)]

RECURSIVE ParseEntries(_, _, _)
RECURSIVE ParseNext(_, _, _, _)
\* the loop of parse_test_notation (lines 254-259) from segment k on
ParseEntries(result, entry_strings, k) ==
    IF k > Len(entry_strings) THEN Ok(result)
    ELSE ParseNext(result, entry_strings, k, _parse_single_entry(entry_strings[k]))

\* one turn of the loop for what _parse_single_entry returned or raised
ParseNext(result, entry_strings, k, entry) ==
    IF entry.exc # "" THEN Raise(entry.exc)
    ELSE ParseEntries(WithEntry(result, entry_strings[k], entry.val),
                      entry_strings, k + 1)

\* IsEmptyNotation without the test of the stripped notation
IsEmptyNotation_no_strip(notation_arg) == notation_arg = <<>>

\* not notation or not notation.strip() (lines 234 and 521)
IsEmptyNotation(notation_arg) == notation_arg = <<>> \/ strip(notation_arg) = <<>>

\* ParseRemainder without the test of the remainder (lines 245-247)
ParseRemainder_no_check(result, o) ==
    ParseEntries([result EXCEPT !.expected_outcome = o[1]], _split_by_and(o[2]), 1)

\* lines 243-261 for the pair _extract_outcome returned
ParseRemainder(result, o) ==
    IF o[2] = <<>>
    THEN Ok([result EXCEPT !.expected_outcome = o[1],
                           !.parse_errors =
                               Append(@, <<"N", "o", " ", "c", "o", "n", "d", "i", "t", "i", "o", "n", "s", " ", "f", "o", "u", "n", "d", " ", "a", "f", "t", "e", "r", " ", "o", "u", "t", "c", "o", "m", "e">>)])
    ELSE ParseEntries([result EXCEPT !.expected_outcome = o[1]], _split_by_and(o[2]), 1)

parse_test_notation(notation_arg, target_rule, platform) ==
    IF IsEmptyNotation(notation_arg)
    THEN Ok([ParsedTestCase("unknown", notation_arg, target_rule, platform)
                EXCEPT !.parse_errors = Append(@, <<"E", "m", "p", "t", "y", " ", "n", "o", "t", "a", "t", "i", "o", "n", " ", "s", "t", "r", "i", "n", "g">>)])
    ELSE ParseRemainder(ParsedTestCase("unknown", notation_arg, target_rule, platform),
                        _extract_outcome(strip(notation_arg)))

(***************************************************************************)
(* notation_to_dict, validate_notation                                     *)
(***************************************************************************)
\* ConditionDict that emits no age
ConditionDict_loses_age(cond) ==
    [cancer_type |-> cond.cancer_type, age_diagnosed |-> None,
     gleason_score |-> cond.gleason_score, is_aggressive |-> cond.is_aggressive,
     is_metastatic |-> cond.is_metastatic, additional_notes |-> cond.additional_notes]

\* the mapping built for one condition (lines 476-483)
ConditionDict(cond) ==
    [cancer_type |-> cond.cancer_type, age_diagnosed |-> cond.age_diagnosed,
     gleason_score |-> cond.gleason_score, is_aggressive |-> cond.is_aggressive,
     is_metastatic |-> cond.is_metastatic, additional_notes |-> cond.additional_notes]

\* the mapping built for one entry (lines 470-486)
EntryDict(entry) ==
    [relationship |-> entry.relationship, relationship_type |-> entry.relationship_type,
     specific_relative |-> entry.specific_relative,
     is_same_relative |-> entry.is_same_relative,
     conditions |-> [j \in 1..Len(entry.conditions) |-> ConditionDict(entry.conditions[j])]]

notation_to_dict(p) ==
    [expected_outcome |-> p.expected_outcome, target_rule |-> p.target_rule,
     platform |-> p.platform, raw_notation |-> p.raw_notation,
     parse_errors |-> p.parse_errors,
     entries |-> [i \in 1..Len(p.entries) |-> EntryDict(p.entries[i])]]

\* str(n) for a natural number n
RECURSIVE str_int(_)
str_int(n) ==
    LET digit == <<"0", "1", "2", "3", "4", "5", "6", "7", "8", "9">>[(n % 10) + 1]
    IN  IF n < 10 THEN <<digit>> ELSE Append(str_int(n \div 10), digit)

\* EntryWarnings that also warns about a condition with a parenthetical note
EntryWarnings_note_warned(entry, i) ==
    IF entry.conditions = <<>>
    THEN <<<<"E", "n", "t", "r", "y", " ">> \o str_int(i) \o <<" ", "h", "a", "s", " ", "n", "o", " ", "c", "o", "n", "d", "i", "t", "i", "o", "n", "s">>>>
    ELSE LET unknown == SelectSeq([j \in 1..Len(entry.conditions) |-> j],
                            LAMBDA j : \/ entry.conditions[j].cancer_type = <<"U", "n", "k", "n", "o", "w", "n">>
                                       \/ entry.conditions[j].additional_notes # None)
         IN  [n \in 1..Len(unknown) |->
                 <<"E", "n", "t", "r", "y", " ">> \o str_int(i) \o <<",", " ", "c", "o", "n", "d", "i", "t", "i", "o", "n", " ">> \o
                 str_int(unknown[n]) \o <<":", " ", "U", "n", "k", "n", "o", "w", "n", " ", "c", "a", "n", "c", "e", "r", " ", "t", "y", "p", "e">>]

\* the warnings of one entry (lines 545-550)
EntryWarnings(entry, i) ==
    IF entry.conditions = <<>>
    THEN <<<<"E", "n", "t", "r", "y", " ">> \o str_int(i) \o <<" ", "h", "a", "s", " ", "n", "o", " ", "c", "o", "n", "d", "i", "t", "i", "o", "n", "s">>>>
    ELSE LET unknown == SelectSeq([j \in 1..Len(entry.conditions) |-> j],
                            LAMBDA j : entry.conditions[j].cancer_type = <<"U", "n", "k", "n", "o", "w", "n">>)
         IN  [n \in 1..Len(unknown) |->
                 <<"E", "n", "t", "r", "y", " ">> \o str_int(i) \o <<",", " ", "c", "o", "n", "d", "i", "t", "i", "o", "n", " ">> \o
                 str_int(unknown[n]) \o <<":", " ", "U", "n", "k", "n", "o", "w", "n", " ", "c", "a", "n", "c", "e", "r", " ", "t", "y", "p", "e">>]

RECURSIVE EntriesWarnings(_, _)
\* the warnings of the loop over the entries (lines 544-550) from entry i on
EntriesWarnings(entries, i) ==
    IF i > Len(entries) THEN <<>>
    ELSE EntryWarnings(entries[i], i) \o EntriesWarnings(entries, i + 1)

\* the report returned for an empty notation (lines 522-524)
EmptyNotationReport(result) ==
    [result EXCEPT !.valid = FALSE, !.errors = Append(@, <<"N", "o", "t", "a", "t", "i", "o", "n", " ", "i", "s", " ", "e", "m", "p", "t", "y">>)]

\* NoEntriesReport that records the error and leaves valid alone
NoEntriesReport_still_valid(result) ==
    [result EXCEPT !.errors = Append(@, <<"N", "o", " ", "c", "o", "n", "d", "i", "t", "i", "o", "n", "s", "/", "e", "n", "t", "r", "i", "e", "s", " ", "f", "o", "u", "n", "d", " ", "i", "n", " ", "n", "o", "t", "a", "t", "i", "o", "n">>)]

\* the report returned when parsing produced no entry (lines 539-541)
NoEntriesReport(result) ==
    [result EXCEPT !.valid = FALSE,
                   !.errors = Append(@, <<"N", "o", " ", "c", "o", "n", "d", "i", "t", "i", "o", "n", "s", "/", "e", "n", "t", "r", "i", "e", "s", " ", "f", "o", "u", "n", "d", " ", "i", "n", " ", "n", "o", "t", "a", "t", "i", "o", "n">>)]

\* EntriesReport that never fills in 'parsed'
EntriesReport_without_parsed(result, p) ==
    [result EXCEPT !.warnings = @ \o EntriesWarnings(p.entries, 1)]

\* the report returned when parsing produced entries (lines 544-553)
EntriesReport(result, p) ==
    [result EXCEPT !.warnings = @ \o EntriesWarnings(p.entries, 1),
                   !.parsed = Some(notation_to_dict(p))]

\* ParseWarnings that files the parse errors under 'errors'
ParseWarnings_as_errors(result, p) ==
    [result EXCEPT !.errors = @ \o p.parse_errors,
                   !.warnings =
                       IF p.expected_outcome = "unknown"
                       THEN Append(@, <<"N", "o", " ", "P", "O", "S", "/", "N", "E", "G", " ", "o", "u", "t", "c", "o", "m", "e", " ", "p", "r", "e", "f", "i", "x", " ", "f", "o", "u", "n", "d">>) ELSE @]

\* the warnings collected from the parse result (lines 530-535)
ParseWarnings(result, p) ==
    LET w == result.warnings \o p.parse_errors
    IN  [result EXCEPT !.warnings =
            IF p.expected_outcome = "unknown"
            THEN Append(w, <<"N", "o", " ", "P", "O", "S", "/", "N", "E", "G", " ", "o", "u", "t", "c", "o", "m", "e", " ", "p", "r", "e", "f", "i", "x", " ", "f", "o", "u", "n", "d">>) ELSE w]

\* NewReport that starts out invalid
NewReport_starts_invalid ==
    [valid |-> FALSE, errors |-> <<>>, warnings |-> <<>>, parsed |-> None]

\* the fresh report of validate_notation (lines 514-519)
NewReport == [valid |-> TRUE, errors |-> <<>>, warnings |-> <<>>, parsed |-> None]

\* lines 527-553 for what parse_test_notation returned or raised
ReportOf(call) ==
    IF call.exc # ""
    THEN [exc |-> call.exc, val |-> None,
          calls |-> <<"validate_notation", "parse_test_notation">>]
    ELSE IF call.val.entries = <<>>
    THEN [exc |-> "", val |-> NoEntriesReport(ParseWarnings(NewReport, call.val)),
          calls |-> <<"validate_notation", "parse_test_notation">>]
    ELSE [exc |-> "", val |-> EntriesReport(ParseWarnings(NewReport, call.val), call.val),
          calls |-> <<"validate_notation", "parse_test_notation", "notation_to_dict">>]

\* the report of validate_notation, or the exception it raises, with the
\* functions of the module the call enters, in order
validate_notation(notation_arg) ==
    IF IsEmptyNotation(notation_arg)
    THEN [exc |-> "", val |-> EmptyNotationReport(NewReport),
          calls |-> <<"validate_notation">>]
    ELSE ReportOf(parse_test_notation(notation_arg, None, None))

(***************************************************************************)
(* Inputs                                                                  *)
(***************************************************************************)
RECURSIVE Concat(_)
\* the concatenation of a sequence of texts
Concat(pieces) ==
    IF pieces = <<>> THEN <<>> ELSE Head(pieces) \o Concat(Tail(pieces))

\* the texts made of at most n pieces of the vocabulary V
Texts(V, n) == {Concat(f) : f \in UNION {[1..k -> V] : k \in 0..n}}

\* pieces of whole notations: an outcome prefix, the conjunction with and
\* without blanks around it, a relationship prefix, cancer types in and out
\* of the table, parentheses, a blank
NotationPieces ==
    {<<"P", "O", "S", ":", " ">>, <<" ", "A", "N", "D", " ">>, <<"A", "N", "D">>, <<"F", "D", "R", ":", " ">>, <<"C", "o", "l", "o", "n">>, <<"S", "a", "r", "c", "o", "m", "a">>, <<"U", "n", "k", "n", "o", "w", "n">>,
     <<"(">>, <<")">>, <<" ">>}

Notations == Texts(NotationPieces, MaxPieces)

\* what a condition-level notation starts with
ConditionLeads == {<<>>, <<"N", "E", "G", ":", " ", "T", "D", "R", ":", " ">>}

\* pieces of one condition: a cancer type, Gleason scores below and at the
\* threshold, parentheticals with and without an aggressiveness marker, an age
ConditionPieces ==
    {<<"P", "r", "o", "s", "t", "a", "t", "e">>, <<",", " ", "G", "l", "e", "a", "s", "o", "n", " ", "5">>, <<",", " ", "g", "l", "e", "a", "s", "o", "n", " ", "s", "c", "o", "r", "e", ":", " ", "7">>, <<" ", "(", "n", "o", "n", "-", "a", "g", "g", "r", "e", "s", "s", "i", "v", "e", ")">>,
     <<" ", "(", "N", "O", "N", " ", "A", "G", "G", "R", "E", "S", "S", "I", "V", "E", ")">>, <<" ", "(", "A", "g", "g", "r", "e", "s", "s", "i", "v", "e", ")">>, <<" ", "(", "n", "o", "t", "e", ")">>, <<",", " ", "a", "g", "e", " ", "4", "5">>}

Conditions ==
    {lead \o text : lead \in ConditionLeads, text \in Texts(ConditionPieces, MaxAttrs)}

\* what a digit-run notation starts with: the age and Gleason keywords, a
\* cancer type with no keyword after it, and a segment before the one that
\* holds the digits
DigitLeads ==
    {<<"a", "g", "e", " ">>, <<"G", "l", "e", "a", "s", "o", "n", " ">>, <<"P", "O", "S", ":", " ", "F", "D", "R", ":", " ", "C", "o", "l", "o", "n", ",", " ", "a", "g", "e", ":", " ">>, <<"P", "H", "X", ":", " ", "P", "r", "o", "s", "t", "a", "t", "e", ",", " ", "g", "l", "e", "a", "s", "o", "n", " ", "s", "c", "o", "r", "e", " ">>,
     <<"C", "o", "l", "o", "n", " ">>, <<"N", "E", "G", ":", " ", "C", "o", "l", "o", "n", " ", "A", "N", "D", " ", "s", "a", "m", "e", " ", "F", "D", "R", ":", " ", "S", "a", "r", "c", "o", "m", "a", ",", " ", "a", "g", "e", " ">>}

\* n times the character c
Repeat(c, n) == IF n = 0 THEN <<>> ELSE [i \in 1..n |-> c]

\* lengths of digit strings: short ones, and ones int() refuses
DigitCounts ==
    (1..MaxShortDigits) \cup ((INT_MAX_STR_DIGITS + 1)..(INT_MAX_STR_DIGITS + MaxExcessDigits))

DigitRuns ==
    {lead \o Repeat(c, n) : lead \in DigitLeads, c \in {"5", "9"}, n \in DigitCounts}

\* what an outcome-level notation starts with: the six outcome tokens in
\* various cases, POSITIVE written with U+0130, words that are no outcome
\* token, nothing
OutcomeLeads ==
    {<<"P", "O", "S">>, <<"p", "o", "s", "i", "t", "i", "v", "e">>, <<"N", "e", "g">>, <<"N", "E", "G", "A", "T", "I", "V", "E">>, <<"d", "e", "p">>, <<"D", "e", "p", "r", "e", "c", "a", "t", "e", "d">>, <<"P", "O", "S", "I">>, <<"F", "D", "R">>,
     <<"P", "O", "S", "U+0130", "T", "I", "V", "E">>, <<>>}

\* what follows the lead: a colon, a colon with blanks around it, nothing
OutcomeSeparators == {<<":">>, <<" ", ":", " ">>, <<>>}

\* pieces of the text after the outcome position
TailPieces == {<<"F", "D", "R", ":", " ", "C", "o", "l", "o", "n">>, <<" ", "A", "N", "D", " ">>, <<"N", "E", "G", ":", " ">>, <<"S", "a", "r", "c", "o", "m", "a">>, <<" ">>, <<" ", "(", "n", "o", "t", "e", ")">>}

Outcomes ==
    {lead \o sep \o tail : lead \in OutcomeLeads, sep \in OutcomeSeparators,
                           tail \in Texts(TailPieces, MaxTailPieces)}

\* what a segment-level notation starts with: the same-relative marker or nothing
SameLeads == {<<>>, <<"s", "a", "m", "e", " ">>, <<"S", "A", "M", "E", " ">>}

\* the relationship position: the five relationship tokens in various
\* cases, PATIENT written with U+0130, a word that is no relationship
\* token, nothing
RelationshipLeads ==
    {<<"P", "H", "X">>, <<"p", "a", "t", "i", "e", "n", "t">>, <<"F", "d", "r">>, <<"S", "D", "R">>, <<"t", "d", "r">>, <<"X", "D", "R">>, <<"P", "A", "T", "U+0130", "E", "N", "T">>, <<>>}

\* what follows the relationship position: a colon, a colon with blanks
\* around it, nothing
RelationshipSeparators == {<<":">>, <<" ", ":", " ">>, <<>>}

\* pieces of the text after the relationship position: cancer types, an age
\* on a line of its own, a number after a word that ends in "age", and a
\* second segment that refers to the same relative
TextPieces ==
    {<<"C", "o", "l", "o", "n">>, <<"S", "a", "r", "c", "o", "m", "a">>, <<",", "\n", "a", "g", "e", " ", "4", "5">>, <<",", " ", "S", "t", "a", "g", "e", " ", "3">>, <<" ", "A", "N", "D", " ", "s", "a", "m", "e", " ", "F", "D", "R", ":", " ", "B", "r", "e", "a", "s", "t">>}

Segments ==
    {same \o lead \o sep \o text :
        same \in SameLeads, lead \in RelationshipLeads, sep \in RelationshipSeparators,
        text \in Texts(TextPieces, MaxTextPieces)}

\* caller-supplied context of parse_test_notation: (target_rule, platform)
Contexts == {<<None, None>>, <<Some("NCCN-PROS-1"), Some("P4M")>>}

(***************************************************************************)
(* The caller: one notation, parsed and serialized, or validated           *)
(***************************************************************************)
NotCalled == [exc |-> "", val |-> "not called"]

\* the threads that call into the module concurrently
Threads == {1, 2}

\* a thread outside the module
Outside ==
    [pc |-> "outside", function |-> "", notation |-> <<>>, serial |-> 0, result |-> None,
     segments |-> <<>>, k |-> 0, exc |-> "", out |-> None]

\* the module-level dicts as the import of the module leaves them (lines 105-177)
LoadedTables ==
    [outcome |-> OUTCOME_MAP, relationship |-> RELATIONSHIP_MAP, cancer |-> CANCER_TYPE_MAP]

\* no UATDatabase or import_results call made yet
NoCall == [method |-> "", args |-> <<>>, returned |-> None]

\* the rows of table uat_test_cases before any import: two tests that have
\* not been executed
StoredTests ==
    [test_id \in {<<"T", "1">>, <<"T", "2">>} |->
        [test_id |-> test_id, test_status |-> <<"N", "o", "t", " ", "R", "u", "n">>, tested_by |-> None,
         tested_date |-> None, execution_notes |-> None, updated_date |-> "DEFAULT"]]

\* the shared database before any call of this toolkit
NoStorageCalls ==
    /\ uat_cycles = <<>>
    /\ pre_uat_gate_items = <<>>
    /\ audit_history = <<>>
    /\ db_call = NoCall
    /\ uat_test_cases = StoredTests
    /\ import_call = NoCall

\* no concurrent caller has entered the module
NoInvocations ==
    /\ invocations = [t \in Threads |-> Outside]
    /\ heap = <<>>
    /\ tables = LoadedTables
    /\ started = 0
    /\ first_result = <<>>

InitWith(inputs) ==
    /\ notation \in inputs
    /\ NoInvocations
    /\ NoStorageCalls
    /\ context = <<None, None>>
    /\ pc = "idle"
    /\ parsed = NotCalled
    /\ as_dict = NotCalled
    /\ report = NotCalled
    /\ calls = <<>>

Init == InitWith(Notations)

\* result = parse_test_notation(notation, target_rule, platform)
Parse ==
    /\ pc = "idle"
    /\ \E ctx \in Contexts :
          /\ context' = ctx
          /\ parsed' = parse_test_notation(notation, ctx[1], ctx[2])
    /\ pc' = IF parsed'.exc # "" THEN "raised" ELSE "parsed"
    /\ calls' = <<"parse_test_notation">>
    /\ UNCHANGED <<notation, as_dict, report, thread_vars, storage_vars>>

\* result_dict = notation_to_dict(result)
Serialize ==
    /\ pc = "parsed"
    /\ as_dict' = Ok(notation_to_dict(parsed.val))
    /\ pc' = "serialized"
    /\ calls' = <<"notation_to_dict">>
    /\ UNCHANGED <<notation, context, parsed, report, thread_vars, storage_vars>>

\* report = validate_notation(notation)
Validate ==
    /\ pc = "idle"
    /\ \E call \in {validate_notation(notation)} :
          /\ report' = [exc |-> call.exc, val |-> call.val]
          /\ calls' = call.calls
    /\ pc' = IF report'.exc # "" THEN "raised" ELSE "validated"
    /\ UNCHANGED <<notation, context, parsed, as_dict, thread_vars, storage_vars>>

Next == Parse \/ Serialize \/ Validate

Spec == Init /\ [][Next]_vars

\* the caller with a condition-level notation
InitConditions == InitWith(Conditions)

SpecConditions == InitConditions /\ [][Next]_vars

\* the caller with a digit-run notation
InitDigits == InitWith(DigitRuns)

SpecDigits == InitDigits /\ [][Next]_vars

\* the caller with an outcome-level notation
InitOutcomes == InitWith(Outcomes)

SpecOutcomes == InitOutcomes /\ [][Next]_vars

\* the caller with a segment-level notation
InitSegments == InitWith(Segments)

SpecSegments == InitSegments /\ [][Next]_vars

(***************************************************************************)
(* Concurrent callers: parse_test_notation and validate_notation entered   *)
(* by several threads, one step of the orchestrator at a time              *)
(***************************************************************************)
\* the notations the threads pass
ThreadNotations == {<<"P", "O", "S", ":">>, <<"N", "E", "G", ":", " ", "F", "D", "R", ":", " ", "S", "a", "r", "c", "o", "m", "a", " ", "A", "N", "D", " ", "s", "a", "r", "c", "o", "m", "a">>, <<" ">>}

\* the functions the threads call
ThreadFunctions == {"parse_test_notation", "validate_notation"}

\* field(default_factory=list) misread as one default list per field, shared
\* by every instance
NewResultLists_shared_default(h) ==
    [heap |-> IF h = <<>> THEN << <<>>, <<>> >> ELSE h, entries |-> 1, parse_errors |-> 2]

\* field(default_factory=list) (lines 91 and 96): a new ParsedTestCase gets
\* two new list objects, for entries and for parse_errors
NewResultLists(h) ==
    [heap |-> h \o << <<>>, <<>> >>, entries |-> Len(h) + 1, parse_errors |-> Len(h) + 2]

\* list.append(x) on the list object id
ListAppend(h, id, x) == [h EXCEPT ![id] = Append(@, x)]

\* dict.get misread as dict.setdefault: a miss stores the default
DictAfterGet_setdefault(d, key, default) ==
    IF key \in DOMAIN d THEN d ELSE d @@ (key :> default)

\* the dict after d.get(key, default) (lines 285, 359, 437): unchanged
DictAfterGet(d, key, default) == d

\* the ParsedTestCase a result refers to, with the lists it holds
Deref(h, r) ==
    [class |-> "ParsedTestCase", expected_outcome |-> r.expected_outcome,
     entries |-> h[r.entries], raw_notation |-> r.raw_notation,
     target_rule |-> r.target_rule, platform |-> r.platform,
     parse_errors |-> h[r.parse_errors]]

\* match.group(1).upper() of _extract_outcome (line 284), for a notation the
\* outcome pattern matches
OutcomeRaw(notation_str) ==
    upper(SubSeq(notation_str, 1, Len(OUTCOME_TOKENS[Min(OutcomeMatches(notation_str))])))

\* cancer_str of the segment (lines 429-433 on the condition string of the
\* segment)
SegmentCancerStr(entry_str) ==
    CancerStr(ParentheticalStep(CancerCondition(<<"U", "n", "k", "n", "o", "w", "n">>),
                                ConditionStr(entry_str)).condition_str)

\* the entry e of a segment whose cancer_str is given, with the two table
\* lookups (lines 359 and 437) made in the dicts the thread finds
WithLookups(e, entry_str, cancer_str, dicts) ==
    [e EXCEPT
        !.relationship_type =
            IF RelationshipMatches(WithoutSame(entry_str)) = {} THEN @
            ELSE Get(dicts.relationship, e.relationship, "unknown"),
        !.conditions =
            <<[e.conditions[1] EXCEPT
                  !.cancer_type = Get(dicts.cancer, upper(cancer_str), cancer_str)]>>]

\* what _parse_single_entry returned or raised, with the lookups of the thread
LookedUp(entry, entry_str, cancer_str, dicts) ==
    IF entry.exc # "" \/ entry.val = None THEN entry
    ELSE Ok(Some(WithLookups(entry.val[1], entry_str, cancer_str, dicts)))

\* _parse_single_entry for a thread: what it returns or raises
ThreadEntry(entry_str, cancer_str, dicts) ==
    LookedUp(_parse_single_entry(entry_str), entry_str, cancer_str, dicts)

\* thread t, outside the module or with the value of its last call in
\* hand, enters a function of the module (lines 227-232, and lines 514-524
\* for validate_notation, which returns before parsing an empty notation)
Call(t) ==
    /\ invocations[t].pc \in {"outside", "returned"}
    /\ started < MaxCalls
    /\ \E f \in ThreadFunctions, n \in ThreadNotations :
          IF f = "validate_notation" /\ IsEmptyNotation(n)
          THEN /\ invocations' =
                     [invocations EXCEPT ![t] =
                         [Outside EXCEPT !.pc = "finishing", !.function = f,
                                         !.notation = n, !.serial = started + 1]]
               /\ heap' = heap
          ELSE /\ invocations' =
                     [invocations EXCEPT ![t] =
                         [Outside EXCEPT
                             !.pc = "constructed", !.function = f, !.notation = n,
                             !.serial = started + 1,
                             !.result =
                                 Some([expected_outcome |-> "unknown",
                                       entries |-> NewResultLists(heap).entries,
                                       parse_errors |-> NewResultLists(heap).parse_errors,
                                       raw_notation |-> n, target_rule |-> None,
                                       platform |-> None])]]
               /\ heap' = NewResultLists(heap).heap
    /\ started' = started + 1
    /\ UNCHANGED <<tables, first_result, parser_vars, storage_vars>>

\* lines 234-239
CheckEmpty(t) ==
    /\ invocations[t].pc = "constructed"
    /\ IF IsEmptyNotation(invocations[t].notation)
       THEN /\ heap' = ListAppend(heap, invocations[t].result[1].parse_errors,
                                  <<"E", "m", "p", "t", "y", " ", "n", "o", "t", "a", "t", "i", "o", "n", " ", "s", "t", "r", "i", "n", "g">>)
            /\ invocations' = [invocations EXCEPT ![t].pc = "finishing"]
       ELSE /\ heap' = heap
            /\ invocations' = [invocations EXCEPT ![t].pc = "stripped"]
    /\ UNCHANGED <<tables, started, first_result, parser_vars, storage_vars>>

\* lines 242-251
ExtractOutcome(t) ==
    /\ invocations[t].pc = "stripped"
    /\ \E s \in {strip(invocations[t].notation)} :
       \E outcome \in {IF OutcomeMatches(s) = {} THEN "unknown"
                       ELSE Get(tables.outcome, OutcomeRaw(s), "unknown")} :
       \E remainder \in {_extract_outcome(s)[2]} :
          /\ tables' = IF OutcomeMatches(s) = {} THEN tables
                       ELSE [tables EXCEPT
                                !.outcome = DictAfterGet(@, OutcomeRaw(s), "unknown")]
          /\ IF remainder = <<>>
             THEN /\ heap' = ListAppend(heap, invocations[t].result[1].parse_errors,
                                        <<"N", "o", " ", "c", "o", "n", "d", "i", "t", "i", "o", "n", "s", " ", "f", "o", "u", "n", "d", " ", "a", "f", "t", "e", "r", " ", "o", "u", "t", "c", "o", "m", "e">>)
                  /\ invocations' =
                        [invocations EXCEPT
                            ![t].pc = "finishing",
                            ![t].result = Some([@[1] EXCEPT !.expected_outcome = outcome])]
             ELSE /\ heap' = heap
                  /\ invocations' =
                        [invocations EXCEPT
                            ![t].pc = "loop",
                            ![t].result = Some([@[1] EXCEPT !.expected_outcome = outcome]),
                            ![t].segments = _split_by_and(remainder),
                            ![t].k = 1]
    /\ UNCHANGED <<started, first_result, parser_vars, storage_vars>>

\* one turn of the loop of lines 254-259; after the last segment the loop
\* is left (line 261)
ParseSegment(t) ==
    /\ invocations[t].pc = "loop"
    /\ \E entry_str \in {invocations[t].segments[invocations[t].k]} :
       \E cancer_str \in {SegmentCancerStr(entry_str)} :
       \E entry \in {ThreadEntry(entry_str, cancer_str, tables)} :
          /\ tables' =
                IF entry_str = <<>> THEN tables
                ELSE [tables EXCEPT
                         !.cancer = DictAfterGet(@, upper(cancer_str), cancer_str)]
          /\ IF entry.exc # ""
             THEN /\ heap' = heap
                  /\ invocations' = [invocations EXCEPT ![t].pc = "finishing",
                                                        ![t].exc = entry.exc]
             ELSE /\ heap' =
                        IF entry.val # None
                        THEN ListAppend(heap, invocations[t].result[1].entries, entry.val[1])
                        ELSE ListAppend(heap, invocations[t].result[1].parse_errors,
                                        <<"F", "a", "i", "l", "e", "d", " ", "t", "o", " ", "p", "a", "r", "s", "e", " ", "e", "n", "t", "r", "y", ":", " ">> \o entry_str)
                  /\ invocations' =
                        [invocations EXCEPT
                            ![t].k = @ + 1,
                            ![t].pc = IF invocations[t].k = Len(invocations[t].segments)
                                      THEN "finishing" ELSE "loop"]
    /\ UNCHANGED <<started, first_result, parser_vars, storage_vars>>

\* what the invocation of thread t hands back: the ParsedTestCase, or the
\* report validate_notation builds from it (lines 527-553), or the exception
Outcome(t) ==
    IF invocations[t].exc # "" THEN Raise(invocations[t].exc)
    ELSE IF invocations[t].function = "parse_test_notation"
    THEN Ok(Deref(heap, invocations[t].result[1]))
    ELSE IF invocations[t].result = None THEN Ok(EmptyNotationReport(NewReport))
    ELSE Ok(ReportOf(Ok(Deref(heap, invocations[t].result[1]))).val)

\* the call of thread t
CallOf(t) == <<invocations[t].function, invocations[t].notation>>

\* the invocation of thread t returns to its caller
Finish(t) ==
    /\ invocations[t].pc = "finishing"
    /\ \E out \in {Outcome(t)} :
          /\ invocations' = [invocations EXCEPT ![t].pc = "returned", ![t].out = Some(out)]
          /\ first_result' =
                IF CallOf(t) \in DOMAIN first_result THEN first_result
                ELSE first_result @@
                     (CallOf(t) :> [serial |-> invocations[t].serial, out |-> out])
    /\ UNCHANGED <<heap, tables, started, parser_vars, storage_vars>>

InitThreads ==
    /\ NoInvocations
    /\ NoStorageCalls
    /\ notation = <<>>
    /\ context = <<None, None>>
    /\ pc = "idle"
    /\ parsed = NotCalled
    /\ as_dict = NotCalled
    /\ report = NotCalled
    /\ calls = <<>>

NextThreads ==
    \E t \in Threads :
        \/ Call(t)
        \/ CheckEmpty(t)
        \/ ExtractOutcome(t)
        \/ ParseSegment(t)
        \/ Finish(t)

SpecThreads == InitThreads /\ [][NextThreads]_vars

(***************************************************************************)
(* database/db_manager.py: UATDatabase over the shared SQLite database     *)
(***************************************************************************)
\* the values str(uuid.uuid4())[:8] takes in create_cycle (line 270)
Uuids == {<<"0", "a", "1", "b", "2", "c", "3", "d">>}

\* self._session_id (line 126)
_session_id == <<"5", "e", "5", "5", "1", "0", "a", "1">>

\* the rows of table programs that create_cycle reads (lines 260-263)
programs == <<[program_id |-> <<"P", "R", "G", "-", "N", "C", "C", "N">>, prefix |-> <<"N", "C", "C", "N">>]>>

\* truth value of an optional Python string: None and '' are false
Truthy(s) == s # None /\ s[1] # <<>>

\* s or default, for an optional Python string s
OrElse(s, default) == IF Truthy(s) THEN s[1] ELSE default

\* the row log_audit inserts into audit_history (lines 200-206)
AuditRow(record_type, record_id, action, field, old_val, new_val, changed_by, reason) ==
    [record_type |-> record_type, record_id |-> record_id, action |-> action,
     field_changed |-> field, old_value |-> old_val, new_value |-> new_val,
     changed_by |-> changed_by, change_reason |-> reason, session_id |-> _session_id]

\* SELECT program_id FROM programs WHERE UPPER(prefix) = UPPER(?), first
\* row or None (lines 258-266)
ProgramId(program_prefix) ==
    IF ~Truthy(program_prefix) THEN None
    ELSE LET rows == SelectSeq(programs,
                               LAMBDA p : upper(p.prefix) = upper(program_prefix[1]))
         IN  IF rows = <<>> THEN None ELSE Some(rows[1].program_id)

\* f"UAT-{prefix}-{str(uuid.uuid4())[:8].upper()}" (lines 269-270)
CycleId(program_prefix, uuid) ==
    <<"U", "A", "T", "-">> \o (IF Truthy(program_prefix) THEN upper(program_prefix[1]) ELSE <<"U", "A", "T">>)
            \o <<"-">> \o upper(uuid)

\* the row create_cycle inserts into uat_cycles (lines 273-282); the columns
\* the statement does not name hold their defaults
CycleRow(cycle_id, program_prefix, name, uat_type) ==
    [cycle_id |-> cycle_id, program_id |-> ProgramId(program_prefix), name |-> name,
     description |-> None, uat_type |-> uat_type, target_launch_date |-> None,
     clinical_pm |-> None, clinical_pm_email |-> None, status |-> "planning",
     created_by |-> "system",
     pre_uat_gate_passed |-> 0, pre_uat_gate_signed_by |-> None,
     pre_uat_gate_signed_date |-> None, pre_uat_gate_notes |-> None,
     go_nogo_decision |-> None, go_nogo_signed_by |-> None,
     go_nogo_signed_date |-> None, go_nogo_notes |-> None,
     updated_date |-> "DEFAULT"]

\* gate_items of _create_default_gate_items (lines 320-348):
\* (category, sequence, item_text, is_required)
DefaultGateItems(uat_type) ==
    IF uat_type = <<"r", "u", "l", "e", "_", "v", "a", "l", "i", "d", "a", "t", "i", "o", "n">>
    THEN << <<"feature_deployment", 1, "NCCN rules deployed to QA environment", 1>>,
            <<"feature_deployment", 2, "All rule IDs verified in system", 1>>,
            <<"critical_path", 1, "Patient registration flow tested", 1>>,
            <<"critical_path", 2, "Test profiles created and validated", 1>>,
            <<"environment", 1, "QA environment stable and accessible", 1>>,
            <<"blocker_check", 1, "No critical defects in backlog", 1>>,
            <<"sign_off", 1, "Clinical PM approval for test start", 1>> >>
    ELSE IF uat_type = <<"f", "e", "a", "t", "u", "r", "e">>
    THEN << <<"feature_deployment", 1, "Feature deployed to QA environment", 1>>,
            <<"feature_deployment", 2, "Feature flags configured correctly", 1>>,
            <<"critical_path", 1, "Core happy path verified", 1>>,
            <<"environment", 1, "QA environment stable and accessible", 1>>,
            <<"blocker_check", 1, "No critical defects blocking feature", 1>>,
            <<"sign_off", 1, "Product Owner approval for test start", 1>> >>
    ELSE << <<"feature_deployment", 1, "Release candidate deployed to QA", 1>>,
            <<"critical_path", 1, "Smoke tests passing", 1>>,
            <<"environment", 1, "QA environment mirrors production", 1>>,
            <<"blocker_check", 1, "No P0/P1 defects open", 1>>,
            <<"sign_off", 1, "Release Manager approval", 1>> >>

\* the row one INSERT of _create_default_gate_items adds (lines 352-356);
\* item_id is the next row id, the other columns hold their defaults
GateItemRow(item_id, cycle_id, item) ==
    [item_id |-> item_id, cycle_id |-> cycle_id, category |-> item[1],
     sequence |-> item[2], item_text |-> item[3], is_required |-> item[4],
     is_complete |-> 0, completed_by |-> None, completed_date |-> None, notes |-> None]

\* table pre_uat_gate_items after _create_default_gate_items (lines 351-356)
_create_default_gate_items(items, cycle_id, uat_type) ==
    items \o [k \in 1..Len(DefaultGateItems(uat_type)) |->
                 GateItemRow(Len(items) + k, cycle_id, DefaultGateItems(uat_type)[k])]

\* the tables after create_cycle, and the cycle_id it returns (lines 255-297)
create_cycle(cycles, items, history, name, uat_type, program_prefix, uuid) ==
    [uat_cycles |->
         cycles @@ (CycleId(program_prefix, uuid) :>
                        CycleRow(CycleId(program_prefix, uuid), program_prefix, name,
                                 uat_type)),
     pre_uat_gate_items |->
         _create_default_gate_items(items, CycleId(program_prefix, uuid), uat_type),
     audit_history |->
         Append(history,
                AuditRow("uat_cycle", CycleId(program_prefix, uuid), "Created", None, None,
                         Some(name \o <<" ", "(">> \o uat_type \o <<")">>), <<"s", "y", "s", "t", "e", "m">>,
                         Some(<<"N", "e", "w", " ", "U", "A", "T", " ", "c", "y", "c", "l", "e", " ", "c", "r", "e", "a", "t", "e", "d", " ", "f", "o", "r", " ">> \o name))),
     returned |-> CycleId(program_prefix, uuid)]

\* the rows of pre_uat_gate_items WHERE cycle_id = ? (lines 590-591)
ItemsOf(items, cycle_id) == SelectSeq(items, LAMBDA i : i.cycle_id = cycle_id)

\* SUM over the rows of a column expression: NULL for no row
RECURSIVE Sum(_, _)
Sum(rows, k) == IF k > Len(rows) THEN 0 ELSE rows[k] + Sum(rows, k + 1)

SqlSum(values) == IF values = <<>> THEN None ELSE Some(Sum(values, 1))

\* SUM(CASE WHEN is_required = 1 AND is_complete = 0 THEN 1 ELSE 0 END)
\* (line 589)
RequiredPending(rows) ==
    SqlSum([k \in 1..Len(rows) |->
               IF rows[k].is_required = 1 /\ rows[k].is_complete = 0 THEN 1 ELSE 0])

\* x or 0, for an optional number x
OrZero(x) == IF x = None THEN 0 ELSE x[1]

\* the row get_gate_status returns for the selected rows (lines 585-595)
GateStatusOf(rows) ==
    [total |-> Len(rows),
     completed |-> SqlSum([k \in 1..Len(rows) |-> rows[k].is_complete]),
     required_pending |-> RequiredPending(rows),
     ready_for_signoff |-> OrZero(RequiredPending(rows)) = 0]

get_gate_status(items, cycle_id) == GateStatusOf(ItemsOf(items, cycle_id))

\* the row of the UPDATE of update_gate_item (lines 619-628)
UpdatedItem(row, is_complete, completed_by, notes) ==
    [row EXCEPT !.is_complete = IF is_complete THEN 1 ELSE 0,
                !.completed_by = completed_by,
                !.completed_date = IF is_complete THEN Some("date.today()") ELSE None,
                !.notes = IF notes # None THEN notes ELSE @]

\* table pre_uat_gate_items after update_gate_item, and the value it
\* returns (lines 617-631)
update_gate_item(items, item_id, is_complete, completed_by, notes) ==
    [pre_uat_gate_items |->
         [k \in 1..Len(items) |->
             IF items[k].item_id = item_id
             THEN UpdatedItem(items[k], is_complete, completed_by, notes)
             ELSE items[k]],
     returned |-> \E k \in 1..Len(items) : items[k].item_id = item_id]

\* the row of the UPDATE of sign_off_gate (lines 666-674)
SignedOffCycle(row, signed_by, notes) ==
    [row EXCEPT !.pre_uat_gate_passed = 1,
                !.pre_uat_gate_signed_by = Some(signed_by),
                !.pre_uat_gate_signed_date = Some("DATE('now')"),
                !.pre_uat_gate_notes = notes,
                !.updated_date = "CURRENT_TIMESTAMP"]

\* the tables after the sign-off that found the gate ready, and the value
\* returned (lines 665-687)
SignOff(cycles, history, cycle_id, signed_by, notes) ==
    [uat_cycles |->
         [c \in DOMAIN cycles |->
             IF c = cycle_id THEN SignedOffCycle(cycles[c], signed_by, notes)
             ELSE cycles[c]],
     audit_history |->
         Append(history,
                AuditRow("uat_cycle", cycle_id, "Gate Signed Off",
                         Some("pre_uat_gate_passed"), Some(<<"0">>), Some(<<"1">>), signed_by,
                         Some(OrElse(notes, <<"P", "r", "e", "-", "U", "A", "T", " ", "g", "a", "t", "e", " ", "s", "i", "g", "n", "e", "d", " ", "o", "f", "f">>)))),
     returned |-> <<TRUE, <<"G", "a", "t", "e", " ", "s", "i", "g", "n", "e", "d", " ", "o", "f", "f", " ", "s", "u", "c", "c", "e", "s", "s", "f", "u", "l", "l", "y">>>>]

\* the refusal of sign_off_gate (lines 661-662)
SignOffRefused(cycles, history, status) ==
    [uat_cycles |-> cycles, audit_history |-> history,
     returned |-> <<FALSE, str_int(status.required_pending[1])
                               \o <<" ", "r", "e", "q", "u", "i", "r", "e", "d", " ", "i", "t", "e", "m", "(", "s", ")", " ", "s", "t", "i", "l", "l", " ", "p", "e", "n", "d", "i", "n", "g">>>>]

\* sign_off_gate that signs whatever get_gate_status reports
sign_off_gate_unchecked(cycles, history, status, cycle_id, signed_by, notes) ==
    SignOff(cycles, history, cycle_id, signed_by, notes)

\* sign_off_gate for the status get_gate_status returned (lines 660-687)
sign_off_gate(cycles, history, status, cycle_id, signed_by, notes) ==
    IF ~status.ready_for_signoff
    THEN SignOffRefused(cycles, history, status)
    ELSE SignOff(cycles, history, cycle_id, signed_by, notes)

\* valid_decisions of record_go_nogo_decision (line 896)
valid_decisions == <<<<"g", "o">>, <<"c", "o", "n", "d", "i", "t", "i", "o", "n", "a", "l", "_", "g", "o">>, <<"n", "o", "_", "g", "o">>>>

\* decision_text of record_go_nogo_decision (lines 933-937)
decision_text ==
    (<<"g", "o">> :> <<"G", "O", " ", "-", " ", "A", "p", "p", "r", "o", "v", "e", "d", " ", "f", "o", "r", " ", "l", "a", "u", "n", "c", "h">>) @@
    (<<"c", "o", "n", "d", "i", "t", "i", "o", "n", "a", "l", "_", "g", "o">> :> <<"C", "O", "N", "D", "I", "T", "I", "O", "N", "A", "L", " ", "G", "O", " ", "-", " ", "A", "p", "p", "r", "o", "v", "e", "d", " ", "w", "i", "t", "h", " ", "c", "o", "n", "d", "i", "t", "i", "o", "n", "s">>) @@
    (<<"n", "o", "_", "g", "o">> :> <<"N", "O", "-", "G", "O", " ", "-", " ", "L", "a", "u", "n", "c", "h", " ", "b", "l", "o", "c", "k", "e", "d">>)

\* ', '.join(valid_decisions) (line 898)
JoinedDecisions == <<"g", "o", ",", " ", "c", "o", "n", "d", "i", "t", "i", "o", "n", "a", "l", "_", "g", "o", ",", " ", "n", "o", "_", "g", "o">>

\* the row of the UPDATE of record_go_nogo_decision (lines 903-921)
DecidedCycle(row, decision, signed_by, notes) ==
    [row EXCEPT !.go_nogo_decision = Some(decision),
                !.go_nogo_signed_by = Some(signed_by),
                !.go_nogo_signed_date = Some("DATE('now')"),
                !.go_nogo_notes = notes,
                !.updated_date = "CURRENT_TIMESTAMP",
                !.status = IF decision = <<"g", "o">> THEN "complete" ELSE @]

\* record_go_nogo_decision that marks the cycle complete on every decision
record_go_nogo_decision_always_complete(cycles, history, cycle_id, decision, signed_by, notes) ==
    IF decision \notin Range(valid_decisions)
    THEN [uat_cycles |-> cycles, audit_history |-> history,
          returned |-> <<FALSE, <<"I", "n", "v", "a", "l", "i", "d", " ", "d", "e", "c", "i", "s", "i", "o", "n", ".", " ", "M", "u", "s", "t", " ", "b", "e", " ", "o", "n", "e", " ", "o", "f", ":", " ">> \o JoinedDecisions>>]
    ELSE [uat_cycles |->
              [c \in DOMAIN cycles |->
                  IF c = cycle_id
                  THEN [DecidedCycle(cycles[c], decision, signed_by, notes)
                            EXCEPT !.status = "complete"]
                  ELSE cycles[c]],
          audit_history |->
              Append(history,
                     AuditRow("uat_cycle", cycle_id, "Go/No-Go Decision",
                              Some("go_nogo_decision"), None, Some(decision), signed_by,
                              Some(OrElse(notes, <<"D", "e", "c", "i", "s", "i", "o", "n", ":", " ">> \o decision)))),
          returned |-> <<TRUE, Get(decision_text, decision, decision)>>]

\* the tables after record_go_nogo_decision, and the value it returns
\* (lines 896-939)
record_go_nogo_decision(cycles, history, cycle_id, decision, signed_by, notes) ==
    IF decision \notin Range(valid_decisions)
    THEN [uat_cycles |-> cycles, audit_history |-> history,
          returned |-> <<FALSE, <<"I", "n", "v", "a", "l", "i", "d", " ", "d", "e", "c", "i", "s", "i", "o", "n", ".", " ", "M", "u", "s", "t", " ", "b", "e", " ", "o", "n", "e", " ", "o", "f", ":", " ">> \o JoinedDecisions>>]
    ELSE [uat_cycles |->
              [c \in DOMAIN cycles |->
                  IF c = cycle_id THEN DecidedCycle(cycles[c], decision, signed_by, notes)
                  ELSE cycles[c]],
          audit_history |->
              Append(history,
                     AuditRow("uat_cycle", cycle_id, "Go/No-Go Decision",
                              Some("go_nogo_decision"), None, Some(decision), signed_by,
                              Some(OrElse(notes, <<"D", "e", "c", "i", "s", "i", "o", "n", ":", " ">> \o decision)))),
          returned |-> <<TRUE, Get(decision_text, decision, decision)>>]

(***************************************************************************)
(* The callers of UATDatabase                                              *)
(***************************************************************************)
\* arguments (name, uat_type, program_prefix) of create_cycle
CycleInputs ==
    {<<<<"N", "C", "C", "N", " ", "Q", "4", " ", "2", "0", "2", "5">>, <<"r", "u", "l", "e", "_", "v", "a", "l", "i", "d", "a", "t", "i", "o", "n">>, Some(<<"n", "c", "c", "n">>)>>,
     <<<<"O", "n", "b", "o", "a", "r", "d", "i", "n", "g">>, <<"f", "e", "a", "t", "u", "r", "e">>, Some(<<"o", "n", "b">>)>>,
     <<<<"R", "e", "l", "e", "a", "s", "e", " ", "1", "2">>, <<"r", "e", "g", "r", "e", "s", "s", "i", "o", "n">>, None>>}

\* a cycle_id no create_cycle has returned
MissingCycle == <<"U", "A", "T", "-", "U", "A", "T", "-", "F", "F", "F", "F", "F", "F", "F", "F">>

\* the cycle_id arguments: the cycles of the table and a missing one
CycleArgs == DOMAIN uat_cycles \cup {MissingCycle}

\* arguments (is_complete, completed_by, notes) of update_gate_item
ItemUpdates == {<<TRUE, Some(<<"q", "a">>), None>>, <<FALSE, None, None>>}

\* the item_id arguments: the rows of the table and a missing one
ItemArgs == 1..(Len(pre_uat_gate_items) + 1)

\* arguments signed_by and notes of sign_off_gate and record_go_nogo_decision
Signers == {<<"p", "m">>}

SignOffNotes == {None, Some(<<"a", "l", "l", " ", "c", "l", "e", "a", "r">>)}

\* arguments (decision, notes) of record_go_nogo_decision
DecisionInputs ==
    {<<<<"g", "o">>, None>>, <<<<"c", "o", "n", "d", "i", "t", "i", "o", "n", "a", "l", "_", "g", "o">>, Some(<<"p", "e", "n", "d", "i", "n", "g", " ", "f", "i", "x">>)>>, <<<<"n", "o", "_", "g", "o">>, None>>,
     <<<<"G", "O">>, None>>, <<<<>>, Some(<<"l", "a", "t", "e", "r">>)>>}

\* no uuid of Uuids is left for a new cycle_id
UuidUsed(uuid) ==
    \E c \in DOMAIN uat_cycles : SubSeq(c, Len(c) - Len(uuid) + 1, Len(c)) = upper(uuid)

\* cycle_id = db.create_cycle(name, uat_type, program_prefix=program_prefix)
CreateCycle ==
    /\ \E a \in CycleInputs, uuid \in Uuids :
          /\ ~UuidUsed(uuid)
          /\ \E r \in {create_cycle(uat_cycles, pre_uat_gate_items, audit_history, a[1],
                                    a[2], a[3], uuid)} :
                /\ uat_cycles' = r.uat_cycles
                /\ pre_uat_gate_items' = r.pre_uat_gate_items
                /\ audit_history' = r.audit_history
                /\ db_call' = [method |-> "create_cycle", args |-> a,
                               returned |-> r.returned]
    /\ UNCHANGED <<uat_test_cases, import_call, parser_vars, thread_vars>>

\* db.update_gate_item(item_id, is_complete, completed_by, notes)
UpdateGateItem ==
    /\ \E item_id \in ItemArgs, u \in ItemUpdates :
          \E r \in {update_gate_item(pre_uat_gate_items, item_id, u[1], u[2], u[3])} :
              /\ pre_uat_gate_items' = r.pre_uat_gate_items
              /\ db_call' = [method |-> "update_gate_item",
                             args |-> <<item_id, u[1], u[2], u[3]>>,
                             returned |-> r.returned]
    /\ UNCHANGED <<uat_cycles, audit_history, uat_test_cases, import_call, parser_vars,
                   thread_vars>>

\* db.sign_off_gate(cycle_id, signed_by, notes)
SignOffGate ==
    /\ \E cycle_id \in CycleArgs, signed_by \in Signers, notes \in SignOffNotes :
          \E r \in {sign_off_gate(uat_cycles, audit_history,
                                  get_gate_status(pre_uat_gate_items, cycle_id),
                                  cycle_id, signed_by, notes)} :
              /\ Len(r.audit_history) <= MaxGateAudit
              /\ uat_cycles' = r.uat_cycles
              /\ audit_history' = r.audit_history
              /\ db_call' = [method |-> "sign_off_gate",
                             args |-> <<cycle_id, signed_by, notes>>,
                             returned |-> r.returned]
    /\ UNCHANGED <<pre_uat_gate_items, uat_test_cases, import_call, parser_vars,
                   thread_vars>>

\* db.record_go_nogo_decision(cycle_id, decision, signed_by, notes)
RecordGoNogoDecision ==
    /\ \E cycle_id \in CycleArgs, d \in DecisionInputs, signed_by \in Signers :
          \E r \in {record_go_nogo_decision(uat_cycles, audit_history, cycle_id, d[1],
                                            signed_by, d[2])} :
              /\ Len(r.audit_history) <= MaxDecisionAudit
              /\ uat_cycles' = r.uat_cycles
              /\ audit_history' = r.audit_history
              /\ db_call' = [method |-> "record_go_nogo_decision",
                             args |-> <<cycle_id, d[1], signed_by, d[2]>>,
                             returned |-> r.returned]
    /\ UNCHANGED <<pre_uat_gate_items, uat_test_cases, import_call, parser_vars,
                   thread_vars>>

\* the database before any call, with no parser call under way
InitDatabase ==
    /\ NoInvocations
    /\ NoStorageCalls
    /\ notation = <<>>
    /\ context = <<None, None>>
    /\ pc = "idle"
    /\ parsed = NotCalled
    /\ as_dict = NotCalled
    /\ report = NotCalled
    /\ calls = <<>>

\* the pre-UAT gate: cycles created, gate items updated, gates signed off
NextGates == CreateCycle \/ UpdateGateItem \/ SignOffGate

SpecGates == InitDatabase /\ [][NextGates]_vars

\* the go/no-go decision: cycles created, decisions recorded
NextDecisions == CreateCycle \/ RecordGoNogoDecision

SpecDecisions == InitDatabase /\ [][NextDecisions]_vars

(***************************************************************************)
(* importers/import_uat_results.py: import_results                         *)
(***************************************************************************)
\* truth value of a JSON value read with dict.get: a missing key (None)
\* and the empty string are false
Present(v) == v # None /\ v # <<>>

\* sync_type in ('auto_open', 'auto_10pm', 'manual') (line 72)
IsProgressSync(sync_type) == sync_type \in {<<"a", "u", "t", "o", "_", "o", "p", "e", "n">>, <<"a", "u", "t", "o", "_", "1", "0", "p", "m">>, <<"m", "a", "n", "u", "a", "l">>}

\* IsPartial that trusts the argument only
IsPartial_argument_only(partial, sync_type) == partial

\* partial after lines 72-73
IsPartial(partial, sync_type) == partial \/ IsProgressSync(sync_type)

\* data.get('submitted_at', data.get('synced_at', datetime.now().isoformat()))
\* (line 68)
SubmittedAt(data, now) == Get(data, "submitted_at", Get(data, "synced_at", now))

\* result.get('status', result.get('test_status')) (line 96)
StatusOf(result) == Get(result, "status", Get(result, "test_status", None))

\* status in ('Not Run', 'Not_Run', '') (line 107)
IsNotRun(status) == status \in {<<"N", "o", "t", " ", "R", "u", "n">>, <<"N", "o", "t", "_", "R", "u", "n">>, <<>>}

\* execution_notes after the CASE of the UPDATE (lines 120-124)
NotesAfter(execution_notes, tester, notes) ==
    IF execution_notes = None \/ execution_notes = Some(<<>>) THEN Some(notes)
    ELSE IF notes = <<>> THEN execution_notes
    ELSE Some(execution_notes[1] \o <<"\n">> \o <<"[">> \o tester \o <<"]", " ">> \o notes)

\* the row of the UPDATE of import_results (lines 115-136)
ImportedRow(row, status, tester, tested_date, notes) ==
    [row EXCEPT !.test_status = status,
                !.tested_by = Some(tester),
                !.tested_date = Some(tested_date),
                !.execution_notes = NotesAfter(@, tester, notes),
                !.updated_date = "CURRENT_TIMESTAMP"]

\* the counters and the table after the UPDATE for one result (lines
\* 111-142)
Executed(acc, test_id, status, tester, tested_date, notes) ==
    IF test_id \in DOMAIN acc.uat_test_cases
    THEN [acc EXCEPT !.updated = @ + 1,
                     !.uat_test_cases[test_id] =
                         ImportedRow(@, status, tester, tested_date, notes)]
    ELSE [acc EXCEPT !.not_found = @ + 1,
                     !.errors = Append(@, [message |-> "Test not found in database",
                                           subject |-> test_id])]

\* one turn of the loop of import_results (lines 93-145)
ImportOne(acc, result, partial, tester, submitted_at) ==
    IF ~Present(Get(result, "test_id", None)) \/ ~Present(StatusOf(result))
    THEN [acc EXCEPT !.errors = Append(@, [message |-> "Missing test_id or status",
                                           subject |-> result])]
    ELSE IF partial /\ IsNotRun(StatusOf(result))
    THEN [acc EXCEPT !.skipped = @ + 1]
    ELSE Executed(acc, result.test_id, StatusOf(result), tester,
                  Get(result, "tested_date", submitted_at), Get(result, "notes", <<>>))

\* the loop of import_results from result k on
RECURSIVE ImportLoop(_, _, _, _, _, _)
ImportLoop(acc, results, k, partial, tester, submitted_at) ==
    IF k > Len(results) THEN acc
    ELSE ImportLoop(ImportOne(acc, results[k], partial, tester, submitted_at),
                    results, k + 1, partial, tester, submitted_at)

\* the row import_results inserts into audit_history (lines 149-164)
ImportAuditRow(acc, results, partial, tester, sync_type, file_name) ==
    [record_type |-> "uat_test_cases",
     record_id |-> <<"b", "a", "t", "c", "h", "-">> \o (IF partial THEN <<"s", "y", "n", "c">> ELSE <<"i", "m", "p", "o", "r", "t">>) \o <<"-">>
                       \o str_int(Len(results)),
     action |-> IF partial THEN "SYNC" ELSE "IMPORT",
     field_changed |-> Some("test_status"),
     old_value |-> None,
     new_value |-> Some((IF partial THEN <<"S", "y", "n", "c", "e", "d">> ELSE <<"I", "m", "p", "o", "r", "t", "e", "d">>) \o <<" ">>
                           \o str_int(acc.updated) \o <<" ", "r", "e", "s", "u", "l", "t", "s", ",", " ">>
                           \o str_int(acc.skipped) \o <<" ", "s", "k", "i", "p", "p", "e", "d", ",", " ">>
                           \o str_int(acc.not_found) \o <<" ", "n", "o", "t", " ", "f", "o", "u", "n", "d">>),
     changed_by |-> tester,
     change_reason |-> Some(<<"J", "S", "O", "N", " ">> \o sync_type \o <<" ", "f", "r", "o", "m", " ">> \o file_name)]

\* the tables and the summary after the loop (lines 147-182)
Imported(acc, history, results, partial, tester, sync_type, submitted_at, file_name) ==
    [uat_test_cases |-> acc.uat_test_cases,
     audit_history |->
         Append(history,
                ImportAuditRow(acc, results, partial, tester, sync_type, file_name)),
     returned |-> [success |-> TRUE, tester |-> tester, sync_type |-> sync_type,
                   partial |-> partial, submitted_at |-> submitted_at,
                   total_in_file |-> Len(results), updated |-> acc.updated,
                   skipped |-> acc.skipped, not_found |-> acc.not_found,
                   errors |-> acc.errors]]

\* lines 76-182 for the metadata read from the file
ImportWith(tests, history, results, partial, tester, sync_type, submitted_at, file_name) ==
    IF results = <<>>
    THEN [uat_test_cases |-> tests, audit_history |-> history,
          returned |-> [error |-> "No results found in JSON file"]]
    ELSE Imported(ImportLoop([uat_test_cases |-> tests, updated |-> 0, skipped |-> 0,
                              not_found |-> 0, errors |-> <<>>],
                             results, 1, partial, tester, submitted_at),
                  history, results, partial, tester, sync_type, submitted_at, file_name)

\* the tables after import_results(json_path, partial) on a file that holds
\* data, and the summary it returns (lines 59-182)
import_results(tests, history, data, partial, now, file_name) ==
    ImportWith(tests, history, Get(data, "results", <<>>),
               IsPartial(partial, Get(data, "sync_type", <<"f", "i", "n", "a", "l">>)),
               Get(data, "tester", <<"U", "n", "k", "n", "o", "w", "n">>), Get(data, "sync_type", <<"f", "i", "n", "a", "l">>),
               SubmittedAt(data, now), file_name)

\* the results a file holds: a pass with a note and a fail with a note, a
\* test not run in both spellings and under both keys, a test_id unknown to
\* the database, a result without test_id
FileResults ==
    {[test_id |-> <<"T", "1">>, status |-> <<"P", "a", "s", "s">>, notes |-> <<"o", "k">>],
     [test_id |-> <<"T", "1">>, status |-> <<"N", "o", "t", " ", "R", "u", "n">>, notes |-> <<>>],
     [test_id |-> <<"T", "2">>, test_status |-> <<"N", "o", "t", "_", "R", "u", "n">>],
     [test_id |-> <<"T", "2">>, status |-> <<"F", "a", "i", "l">>, notes |-> <<"b", "u", "g", " ", "7">>,
      tested_date |-> <<"2", "0", "2", "5", "-", "1", "1", "-", "0", "2">>],
     [test_id |-> <<"T", "9">>, status |-> <<"N", "o", "t", " ", "R", "u", "n">>],
     [status |-> <<"N", "o", "t", " ", "R", "u", "n">>, notes |-> <<"n", "o", " ", "i", "d">>]}

\* the lists of results of at most n entries
RECURSIVE ResultLists(_)
ResultLists(n) ==
    IF n = 0 THEN {<<>>}
    ELSE ResultLists(n - 1)
             \cup {Append(l, r) : l \in {m \in ResultLists(n - 1) : Len(m) = n - 1},
                                  r \in FileResults}

\* the metadata of a file: an export without metadata, a progress sync, a
\* final submission
FileHeaders ==
    {<<>>,
     [tester |-> <<"a", "n", "n">>, sync_type |-> <<"m", "a", "n", "u", "a", "l">>, synced_at |-> <<"2", "0", "2", "5", "-", "1", "1", "-", "0", "3">>],
     [tester |-> <<"b", "o">>, sync_type |-> <<"f", "i", "n", "a", "l">>, submitted_at |-> <<"2", "0", "2", "5", "-", "1", "1", "-", "0", "4">>]}

\* what json.load returns for the files
Files ==
    FileHeaders
        \cup {h @@ [results |-> l] : h \in FileHeaders, l \in ResultLists(MaxResults)}

\* the calls: a file without metadata is imported with and without
\* --partial, a file that names its sync_type without
ImportArgs ==
    {<<data, partial>> \in Files \X BOOLEAN : partial => "sync_type" \notin DOMAIN data}

\* summary = import_results(json_path, partial)
ImportResults ==
    /\ Len(audit_history) <= MaxImports
    /\ \E args \in ImportArgs :
          \E r \in {import_results(uat_test_cases, audit_history, args[1], args[2],
                                   <<"n", "o", "w">>, <<"r", "e", "s", "u", "l", "t", "s", ".", "j", "s", "o", "n">>)} :
              /\ uat_test_cases' = r.uat_test_cases
              /\ audit_history' = r.audit_history
              /\ import_call' = [method |-> "import_results", args |-> args,
                                 returned |-> r.returned]
    /\ UNCHANGED <<uat_cycles, pre_uat_gate_items, db_call, parser_vars, thread_vars>>

\* the first file imported: a final submission that records a pass
FirstFile ==
    [tester |-> <<"a", "n", "n">>, sync_type |-> <<"f", "i", "n", "a", "l">>, submitted_at |-> <<"2", "0", "2", "5", "-", "1", "1", "-", "0", "1">>,
     results |-> <<[test_id |-> <<"T", "1">>, status |-> <<"P", "a", "s", "s">>, notes |-> <<"o", "k">>]>>]

\* the database after import_results has imported the first file
InitImports ==
    /\ NoInvocations
    /\ notation = <<>>
    /\ context = <<None, None>>
    /\ pc = "idle"
    /\ parsed = NotCalled
    /\ as_dict = NotCalled
    /\ report = NotCalled
    /\ calls = <<>>
    /\ uat_cycles = <<>>
    /\ pre_uat_gate_items = <<>>
    /\ db_call = NoCall
    /\ \E r \in {import_results(StoredTests, <<>>, FirstFile, FALSE,
                                 <<"n", "o", "w">>, <<"f", "i", "r", "s", "t", ".", "j", "s", "o", "n">>)} :
          /\ uat_test_cases = r.uat_test_cases
          /\ audit_history = r.audit_history
          /\ import_call = [method |-> "import_results", args |-> <<FirstFile, FALSE>>,
                            returned |-> r.returned]

NextImports == ImportResults

SpecImports == InitImports /\ [][NextImports]_vars

(***************************************************************************)
(* Properties                                                              *)
(***************************************************************************)
\* parse_test_notation has returned a ParsedTestCase
ParseReturned == pc \in {"parsed", "serialized"}

\* validate_notation has returned a report
ValidateReturned == pc = "validated"

\* s is empty or holds only whitespace
IsBlank(s) == \A i \in 1..Len(s) : IsSpace(s[i])


\* the entries of the returned ParsedTestCase
Entries == parsed.val.entries

\* what is left of the notation after outcome stripping
Remainder == _extract_outcome(strip(notation))[2]

\* the condition string of the k-th entry
Fragment(k) == ConditionStr(_split_by_and(Remainder)[k])

\* the k-th entry's condition after the parenthetical step alone
AfterParenthetical(k) == ParentheticalStep(CancerCondition(<<"U", "n", "k", "n", "o", "w", "n">>), Fragment(k))

\* the parenthetical of condition c carries no aggressiveness marker
NoMarker(c) ==
    c.additional_notes = None \/ ~Contains(lower(c.additional_notes[1]), <<"a", "g", "g", "r", "e", "s", "s", "i", "v", "e">>)

\* C1 (as claimed): a parenthetical holding 'non-aggressive' or
\* 'non aggressive' in any case gives is_aggressive = false; otherwise one
\* holding 'aggressive' gives true; otherwise the parenthetical leaves
\* is_aggressive unset (only a Gleason score of 7 or more can then set it).
C1_NonAggressiveIsFalse ==
    ParseReturned =>
        \A k \in 1..Len(Entries) : \A j \in 1..Len(Entries[k].conditions) :
            LET c == Entries[k].conditions[j]
                notes == lower(c.additional_notes[1])
            IN  c.additional_notes # None =>
                    IF Contains(notes, <<"n", "o", "n", "-", "a", "g", "g", "r", "e", "s", "s", "i", "v", "e">>) \/ Contains(notes, <<"n", "o", "n", " ", "a", "g", "g", "r", "e", "s", "s", "i", "v", "e">>)
                    THEN c.is_aggressive = Some(FALSE)
                    ELSE IF Contains(notes, <<"a", "g", "g", "r", "e", "s", "s", "i", "v", "e">>)
                    THEN c.is_aggressive = Some(TRUE)
                    ELSE \/ c.is_aggressive = None
                         \/ /\ c.is_aggressive = Some(TRUE)
                            /\ c.gleason_score # None
                            /\ c.gleason_score[1] >= 7

\* C2 (as claimed): parse_test_notation returns for every notation and
\* never raises.
C2_ParseNeverRaises == parsed.exc = ""

\* whole-word occurrence of AND at index a (\bAND\b, ignoring case)
IsAndWord(s, a) ==
    /\ StartsWithCI(s, a, <<"A", "N", "D">>)
    /\ a = 1 \/ ~IsWordChar(s[a - 1])
    /\ a + 3 > Len(s) \/ ~IsWordChar(s[a + 3])

\* index i lies inside a whole-word occurrence of AND
InAndWord(s, i) == \E a \in {i - 2, i - 1, i} : a >= 1 /\ IsAndWord(s, a)

\* the number of non-blank pieces between the whole-word occurrences of AND
WordSegmentCount(s) ==
    Cardinality({i \in 1..Len(s) :
        /\ ~InAndWord(s, i)
        /\ i = 1 \/ InAndWord(s, i - 1)
        /\ \E j \in i..Len(s) : ~IsSpace(s[j]) /\ \A n \in i..j : ~InAndWord(s, n)})

\* C3 (as claimed): for a non-empty remainder, the number of entries is the
\* number of non-blank segments between the whole-word occurrences of AND
\* (AND inside a longer word does not split).
C3_WholeWordSegments ==
    ParseReturned /\ ~IsBlank(notation) /\ Remainder # <<>> =>
        Len(Entries) = WordSegmentCount(Remainder)

\* C4: without an aggressiveness marker in the parenthetical (or without a
\* parenthetical), a Gleason score of 7 or more gives is_aggressive = true,
\* and a lower score or no score leaves is_aggressive unset.
C4_GleasonInference ==
    ParseReturned =>
        \A k \in 1..Len(Entries) : \A j \in 1..Len(Entries[k].conditions) :
            LET c == Entries[k].conditions[j]
            IN  NoMarker(c) =>
                    IF c.gleason_score # None /\ c.gleason_score[1] >= 7
                    THEN c.is_aggressive = Some(TRUE)
                    ELSE c.is_aggressive = None

\* C4 witness: a condition without marker whose score of 7 or more made it
\* aggressive.
C4_Witness ==
    /\ ParseReturned
    /\ \E k \in 1..Len(Entries) :
          LET c == Entries[k].conditions[1]
          IN  /\ NoMarker(c)
              /\ c.gleason_score # None
              /\ c.gleason_score[1] >= 7
              /\ c.is_aggressive = Some(TRUE)

\* C5: when the parenthetical step has set is_aggressive, the returned
\* condition carries the value that step set, whatever the Gleason score.
C5_MarkerNotOverridden ==
    ParseReturned /\ ~IsBlank(notation) =>
        \A k \in 1..Len(Entries) :
            LET set == AfterParenthetical(k).result.is_aggressive
            IN  set # None => Entries[k].conditions[1].is_aggressive = set

\* C5 witness: a condition whose parenthetical set is_aggressive and whose
\* Gleason score is below 7.
C5_Witness ==
    /\ ParseReturned
    /\ ~IsBlank(notation)
    /\ \E k \in 1..Len(Entries) :
          /\ AfterParenthetical(k).result.is_aggressive # None
          /\ Entries[k].conditions[1].gleason_score # None
          /\ Entries[k].conditions[1].gleason_score[1] < 7

\* C6 (as claimed): the cancer type is the table's value when the
\* upper-cased remainder is a key of CANCER_TYPE_MAP, the remainder itself
\* when it is non-empty and not a key, and 'Unknown' when it is empty.
C6_EmptyRemainderIsUnknown ==
    ParseReturned /\ ~IsBlank(notation) =>
        \A k \in 1..Len(Entries) :
            LET rest == CancerStr(AfterParenthetical(k).condition_str)
            IN  Entries[k].conditions[1].cancer_type =
                    IF upper(rest) \in DOMAIN CANCER_TYPE_MAP
                    THEN CANCER_TYPE_MAP[upper(rest)]
                    ELSE IF rest # <<>> THEN rest ELSE <<"U", "n", "k", "n", "o", "w", "n">>

\* the warning about condition j of entry i
UnknownTypeWarning(i, j) ==
    <<"E", "n", "t", "r", "y", " ">> \o str_int(i) \o <<",", " ", "c", "o", "n", "d", "i", "t", "i", "o", "n", " ">> \o str_int(j) \o <<":", " ", "U", "n", "k", "n", "o", "w", "n", " ", "c", "a", "n", "c", "e", "r", " ", "t", "y", "p", "e">>

\* C7 (as claimed): every condition whose cancer type is not one the
\* normalization table knows gets a warning naming its entry and condition
\* position, and the report stays valid.
C7_UnrecognizedTypeWarned ==
    ValidateReturned /\ report.val.parsed # None =>
        LET entries == report.val.parsed[1].entries
        IN  /\ report.val.valid
            /\ \A i \in 1..Len(entries) : \A j \in 1..Len(entries[i].conditions) :
                  entries[i].conditions[j].cancer_type \notin Range(CANCER_TYPE_MAP)
                      => UnknownTypeWarning(i, j) \in Range(report.val.warnings)

\* C8 (as claimed): for every non-blank notation the report carries the
\* serialized parse result, also when the report is invalid.
C8_ParsedAlwaysPresent ==
    ValidateReturned /\ ~IsBlank(notation) =>
        report.val.parsed =
            Some(notation_to_dict(parse_test_notation(notation, None, None).val))

\* C8 (amended): for a non-blank notation the report carries the
\* serialized parse result when parsing produced an entry, and parsed =
\* null with valid = false when it produced none.
C8_ParsedPresentIffEntries ==
    ValidateReturned /\ ~IsBlank(notation) =>
        LET p == parse_test_notation(notation, None, None).val
        IN  IF p.entries # <<>>
            THEN report.val.parsed = Some(notation_to_dict(p))
            ELSE report.val.parsed = None /\ ~report.val.valid

\* C8 witness: a report that carries the serialized result of a parse with
\* two or more entries.
C8_Witness ==
    /\ ValidateReturned
    /\ report.val.parsed # None
    /\ Len(report.val.parsed[1].entries) >= 2

\* C9: for an empty or whitespace-only notation the report is valid =
\* false, the one error "Notation is empty", no warning and parsed = null,
\* and the parser is not entered.
C9_EmptyNotationReport ==
    ValidateReturned /\ IsBlank(notation) =>
        /\ report.val = [valid |-> FALSE, errors |-> <<<<"N", "o", "t", "a", "t", "i", "o", "n", " ", "i", "s", " ", "e", "m", "p", "t", "y">>>>,
                         warnings |-> <<>>, parsed |-> None]
        /\ calls = <<"validate_notation">>

\* C9 witness: the report of a whitespace-only notation.
C9_Witness == ValidateReturned /\ IsBlank(notation) /\ notation # <<>>

\* C10: for a non-blank notation, the report is invalid with an error when
\* parsing produced no entry, and valid when it produced one or more.
C10_ValidIffEntries ==
    ValidateReturned /\ ~IsBlank(notation) =>
        LET p == parse_test_notation(notation, None, None).val
        IN  IF p.entries = <<>>
            THEN ~report.val.valid /\ report.val.errors # <<>>
            ELSE report.val.valid

\* C10 witness: the invalid report of a notation that holds only an outcome
\* prefix.
C10_Witness ==
    /\ ValidateReturned
    /\ ~IsBlank(notation)
    /\ ~report.val.valid
    /\ report.val.errors = <<<<"N", "o", " ", "c", "o", "n", "d", "i", "t", "i", "o", "n", "s", "/", "e", "n", "t", "r", "i", "e", "s", " ", "f", "o", "u", "n", "d", " ", "i", "n", " ", "n", "o", "t", "a", "t", "i", "o", "n">>>>

\* C11: the report's warnings start with the orchestrator's parse errors,
\* in order; none of them is among the errors, which hold only the
\* validator's own empty-notation and zero-entries messages.
C11_ParseErrorsAreWarnings ==
    ValidateReturned =>
        /\ Range(report.val.errors) \subseteq
               {<<"N", "o", "t", "a", "t", "i", "o", "n", " ", "i", "s", " ", "e", "m", "p", "t", "y">>, <<"N", "o", " ", "c", "o", "n", "d", "i", "t", "i", "o", "n", "s", "/", "e", "n", "t", "r", "i", "e", "s", " ", "f", "o", "u", "n", "d", " ", "i", "n", " ", "n", "o", "t", "a", "t", "i", "o", "n">>}
        /\ ~IsBlank(notation) =>
               LET errs == parse_test_notation(notation, None, None).val.parse_errors
               IN  /\ Len(report.val.warnings) >= Len(errs)
                   /\ SubSeq(report.val.warnings, 1, Len(errs)) = errs
                   /\ Range(errs) \cap Range(report.val.errors) = {}

\* C11 witness: a report for a notation whose parse recorded an error.
C11_Witness ==
    /\ ValidateReturned
    /\ ~IsBlank(notation)
    /\ parse_test_notation(notation, None, None).val.parse_errors # <<>>
    /\ report.val.warnings # <<>>

\* the entries parse_test_notation builds from the segments of text
SegmentEntries(text) ==
    ParseEntries(ParsedTestCase("unknown", <<>>, None, None),
                 _split_by_and(text), 1).val.entries

\* the outcome the claim gives for each alternative of OUTCOME_TOKENS
ClaimedOutcome ==
    <<"positive", "negative", "positive", "negative", "deprecated", "deprecated">>

\* what follows the token and the separator of the matching alternative t
AfterOutcome(s, t) == strip(From(s, TokenColonEnd(s, OUTCOME_TOKENS[t])))

\* the part of C12 about the parse result
OutcomeAndEntries ==
    LET s == strip(notation)
        m == OutcomeMatches(s)
    IN  ParseReturned =>
            IF m # {}
            THEN /\ parsed.val.expected_outcome = ClaimedOutcome[Min(m)]
                 /\ Entries = SegmentEntries(AfterOutcome(s, Min(m)))
            ELSE /\ parsed.val.expected_outcome = "unknown"
                 /\ Entries = SegmentEntries(s)

\* the part of C12 about the report of a notation without outcome prefix
NoPrefixReport ==
    /\ <<"N", "o", " ", "P", "O", "S", "/", "N", "E", "G", " ", "o", "u", "t", "c", "o", "m", "e", " ", "p", "r", "e", "f", "i", "x", " ", "f", "o", "u", "n", "d">> \in Range(report.val.warnings)
    /\ report.val.errors = <<>>
    /\ report.val.valid

\* C12 (the empty and the whitespace-only notation left aside): a notation
\* with one of the six outcome tokens and a colon at its start gets the
\* corresponding outcome, and its entries are those of the text after the
\* separator; every notation without such a prefix gets 'unknown', is parsed
\* whole, and its report has the warning, no error and valid = true.
C12_OutcomePrefix ==
    /\ OutcomeAndEntries
    /\ ValidateReturned /\ OutcomeMatches(strip(notation)) = {} /\ ~IsBlank(notation)
           => NoPrefixReport

\* C13: for an empty or whitespace-only notation parse_test_notation
\* returns expected_outcome = 'unknown', no entries and exactly one parse
\* error, with raw_notation the untrimmed argument and target_rule and
\* platform the arguments passed in.
C13_EmptyNotationResult ==
    ParseReturned /\ IsBlank(notation) =>
        /\ parsed.val.expected_outcome = "unknown"
        /\ parsed.val.entries = <<>>
        /\ Len(parsed.val.parse_errors) = 1
        /\ parsed.val.raw_notation = notation
        /\ parsed.val.target_rule = context[1]
        /\ parsed.val.platform = context[2]

\* C13 witness: the result for a whitespace-only notation parsed with a
\* target rule and a platform.
C13_Witness ==
    /\ ParseReturned
    /\ IsBlank(notation)
    /\ notation # <<>>
    /\ context[1] # None
    /\ context[2] # None

\* the outcome tokens that s starts with in upper or lower case letters,
\* before optional blanks and a colon
RecognizedOutcome(s) ==
    {t \in OutcomeMatches(s) : StartsWithCI(s, 1, OUTCOME_TOKENS[t])}

\* the notation is a recognized outcome prefix with nothing after it
OnlyOutcomePrefix ==
    LET s == strip(notation)
    IN  RecognizedOutcome(s) # {} /\ AfterOutcome(s, Min(RecognizedOutcome(s))) = <<>>

\* C14: when nothing remains after the outcome prefix, the result keeps
\* the extracted outcome, has no entries, and its one parse error is the
\* orchestrator's "No conditions found after outcome" (no segment added an
\* entry or a failure message).
C14_EmptyRemainderResult ==
    ParseReturned /\ OnlyOutcomePrefix =>
        /\ parsed.val.expected_outcome =
               ClaimedOutcome[Min(RecognizedOutcome(strip(notation)))]
        /\ parsed.val.entries = <<>>
        /\ parsed.val.parse_errors = <<<<"N", "o", " ", "c", "o", "n", "d", "i", "t", "i", "o", "n", "s", " ", "f", "o", "u", "n", "d", " ", "a", "f", "t", "e", "r", " ", "o", "u", "t", "c", "o", "m", "e">>>>

\* C14 witness: the result for a notation that is only a NEG-family or
\* DEP-family prefix followed by blanks.
C14_Witness ==
    /\ ParseReturned
    /\ OnlyOutcomePrefix
    /\ parsed.val.expected_outcome \in {"negative", "deprecated"}
    /\ IsSpace(notation[Len(notation)])

\* the caller's last call was parse_test_notation, which returned or raised
ParseCalled == calls = <<"parse_test_notation">>

\* the segments _parse_single_entry accepts (it rejects the empty one, lines
\* 331-332), in order
Accepted(segments) == SelectSeq(segments, LAMBDA seg : seg # <<>>)

\* C15 (as claimed): parse_test_notation gets through every segment of a
\* non-empty remainder: it returns, every segment has left either its entry
\* or one failure message, and the entries are those of the accepted
\* segments in notation order.
C15_EverySegmentProcessed ==
    ParseCalled /\ ~IsBlank(notation) /\ Remainder # <<>> =>
        /\ parsed.exc = ""
        /\ LET segments == _split_by_and(Remainder)
           IN  /\ Len(parsed.val.entries) + Len(parsed.val.parse_errors) = Len(segments)
               /\ Len(parsed.val.entries) = Len(Accepted(segments))
               /\ \A k \in 1..Len(parsed.val.entries) :
                      parsed.val.entries[k] = EntryOf(Accepted(segments)[k]).val[1]

\* C16: every entry of a returned result has exactly one condition.
C16_ExactlyOneCondition ==
    ParseReturned => \A k \in 1..Len(Entries) : Len(Entries[k].conditions) = 1

\* C16 witness: a result with an entry whose segment has a relationship
\* token and an entry whose segment has none.
C16_Witness ==
    /\ ParseReturned
    /\ ~IsBlank(notation)
    /\ Remainder # <<>>
    /\ \E i, j \in 1..Len(_split_by_and(Remainder)) :
          /\ RelationshipMatches(WithoutSame(_split_by_and(Remainder)[i])) # {}
          /\ RelationshipMatches(WithoutSame(_split_by_and(Remainder)[j])) = {}
    /\ Len(Entries) >= 2

\* the segments of the notation, in order
SegmentsOf == _split_by_and(Remainder)

\* the relationship type the claim gives for each alternative of
\* RELATIONSHIP_TOKENS
ClaimedRelationshipType ==
    <<"patient", "first_degree", "second_degree", "third_degree", "patient">>

\* the alternatives of RELATIONSHIP_TOKENS that start seg, followed by a
\* colon and some text
TokenColonText(seg) ==
    {t \in 1..Len(RELATIONSHIP_TOKENS) :
        /\ TokenColonEnd(seg, RELATIONSHIP_TOKENS[t]) # 0
        /\ strip(From(seg, TokenColonEnd(seg, RELATIONSHIP_TOKENS[t]))) # <<>>}

\* the text after the token and the colon of alternative t
TextAfterToken(seg, t) == strip(From(seg, TokenColonEnd(seg, RELATIONSHIP_TOKENS[t])))

\* what C17 says about entry e built from segment seg (seg without its
\* same-relative marker)
RelationshipAsClaimed(e, seg) ==
    IF TokenColonText(seg) # {}
    THEN /\ e.relationship_type = ClaimedRelationshipType[Min(TokenColonText(seg))]
         /\ e.conditions[1] =
                _parse_condition(TextAfterToken(seg, Min(TokenColonText(seg)))).val
    ELSE /\ e.relationship = <<"P", "H", "X">>
         /\ e.relationship_type = "patient"
         /\ e.conditions[1] = _parse_condition(seg).val

\* C17 (as claimed): a segment that, after an optional same-relative
\* marker, starts with PHX, PATIENT, FDR, SDR or TDR, a colon and some text
\* gets the corresponding relationship type and only the text after the
\* colon as its condition; every other segment gets PHX / patient and the
\* entire segment as its condition.
C17_RelationshipPrefix ==
    ParseReturned /\ ~IsBlank(notation) /\ Remainder # <<>> =>
        /\ Len(Entries) = Len(SegmentsOf)
        /\ \A k \in 1..Len(Entries) :
              RelationshipAsClaimed(Entries[k], WithoutSame(SegmentsOf[k]))

\* the age pattern matches at index i of s, and "age" starts a word there
AgeTokenAt(s, i) == AgeMatchEnd(s, i) # 0 /\ (i = 1 \/ ~IsWordChar(s[i - 1]))

\* s holds the token 'age' followed by a number
HasAgeToken(s) == \E i \in 1..Len(s) : AgeTokenAt(s, i)

\* C18 (as claimed): age_diagnosed is set exactly when the fragment left by
\* the parenthetical step holds 'age' as a whole token followed by a
\* number; without such a token nothing is cut out of the cancer-type label
\* for an age.
C18_AgeWholeToken ==
    ParseReturned /\ ~IsBlank(notation) /\ Remainder # <<>> =>
        \A k \in 1..Len(Entries) :
            LET str == AfterParenthetical(k).condition_str
                c == Entries[k].conditions[1]
            IN  /\ c.age_diagnosed # None <=> HasAgeToken(str)
                /\ ~HasAgeToken(str) =>
                       c.cancer_type =
                           NormalizedType(strip(WithoutTrailingComma(WithoutGleason(str))))

\* seg begins with 'same ' in any case
BeginsWithSame(seg) == StartsWithCI(seg, 1, <<"S", "A", "M", "E", " ">>)

\* the notation is one segment without marker, the conjunction, and a
\* segment with the same-relative marker
EndsWithSameSegment ==
    LET tail == <<" ", "A", "N", "D", " ", "s", "a", "m", "e", " ", "F", "D", "R", ":", " ", "B", "r", "e", "a", "s", "t">>
        n == Len(notation) - Len(tail)
    IN  /\ n >= 1
        /\ SubSeq(notation, n + 1, Len(notation)) = tail
        /\ ~IsBlank(SubSeq(notation, 1, n))
        /\ ~Contains(upper(SubSeq(notation, 1, n)), <<"A", "N", "D">>)

\* C19: a segment that begins with 'same ' gives the entry of the text
\* after that prefix with is_same_relative = true, every other segment an
\* entry with is_same_relative = false, and a notation 'X AND same FDR: Y'
\* gives exactly two entries.
C19_SameRelativeMarker ==
    ParseReturned /\ ~IsBlank(notation) /\ Remainder # <<>> =>
        /\ Len(Entries) = Len(SegmentsOf)
        /\ \A k \in 1..Len(Entries) :
              IF BeginsWithSame(SegmentsOf[k])
              THEN Entries[k] =
                       [EntryOf(strip(From(SegmentsOf[k], 6))).val[1]
                           EXCEPT !.is_same_relative = TRUE]
              ELSE Entries[k].is_same_relative = FALSE
        /\ EndsWithSameSegment => Len(Entries) = 2

\* C19 witness: two entries, the first from a segment with the marker in
\* upper case, the second from 'same FDR: Breast' after the conjunction.
C19_Witness ==
    /\ ParseReturned
    /\ EndsWithSameSegment
    /\ Len(Entries) = 2
    /\ SubSeq(notation, 1, 5) = <<"S", "A", "M", "E", " ">>
    /\ Entries[1].is_same_relative
    /\ Entries[2].is_same_relative
    /\ Entries[2].relationship_type = "first_degree"

\* the notation has a recognized outcome prefix, and the cancer type of
\* every entry of its parse result is a value of the normalization table
PrefixAndKnownTypes ==
    /\ RecognizedOutcome(strip(notation)) # {}
    /\ \A e \in Range(parse_test_notation(notation, None, None).val.entries) :
          \A c \in Range(e.conditions) : c.cancer_type \in Range(CANCER_TYPE_MAP)

\* the report is valid and clean
CleanReport ==
    /\ report.val.valid
    /\ report.val.errors = <<>>
    /\ report.val.warnings = <<>>
    /\ report.val.parsed # None

\* C20: a notation with a recognized outcome prefix and one or more
\* entries, the cancer type of each found in the normalization table, gets
\* a valid report with no error, no warning and a non-null parsed mapping.
C20_KnownTypesCleanReport ==
    ValidateReturned /\ PrefixAndKnownTypes
        /\ parse_test_notation(notation, None, None).val.entries # <<>>
        => CleanReport

\* C20 witness: the clean report of a notation with an outcome prefix whose
\* condition has a known type and a parenthetical note.
C20_Witness ==
    /\ ValidateReturned
    /\ PrefixAndKnownTypes
    /\ CleanReport
    /\ report.val.parsed[1].entries[1].conditions[1].additional_notes # None

\* notation_to_dict has returned the mapping of the parse result
Serialized == pc = "serialized"

\* the keys of the mappings of a result, an entry and a condition
ResultKeys ==
    {"expected_outcome", "target_rule", "platform", "raw_notation", "parse_errors",
     "entries"}

EntryKeys ==
    {"relationship", "relationship_type", "specific_relative", "is_same_relative",
     "conditions"}

ConditionKeys ==
    {"cancer_type", "age_diagnosed", "gleason_score", "is_aggressive", "is_metastatic",
     "additional_notes"}

\* mapping d carries every key of keys with the value record r has for it
SameFields(d, r, keys) == \A key \in keys : d[key] = r[key]

\* C21: the mapping of a parse result has exactly the keys of the schema at
\* every level, the scalar fields and parse_errors of the result, its
\* entries and their conditions in number and order, and every optional
\* field with its parsed value or null.
C21_DictPreservesStructure ==
    Serialized =>
        LET p == parsed.val
            d == as_dict.val
        IN  /\ DOMAIN d = ResultKeys
            /\ SameFields(d, p, ResultKeys \ {"entries"})
            /\ Len(d.entries) = Len(p.entries)
            /\ \A i \in 1..Len(p.entries) :
                  /\ DOMAIN d.entries[i] = EntryKeys
                  /\ SameFields(d.entries[i], p.entries[i], EntryKeys \ {"conditions"})
                  /\ Len(d.entries[i].conditions) = Len(p.entries[i].conditions)
                  /\ \A j \in 1..Len(p.entries[i].conditions) :
                        /\ DOMAIN d.entries[i].conditions[j] = ConditionKeys
                        /\ SameFields(d.entries[i].conditions[j],
                                      p.entries[i].conditions[j], ConditionKeys)

\* C21 witness: the mapping of a result whose condition has an age, a
\* Gleason score and a note, and no metastatic flag.
C21_Witness ==
    /\ Serialized
    /\ Len(as_dict.val.entries) >= 1
    /\ as_dict.val.entries[1].conditions[1].age_diagnosed # None
    /\ as_dict.val.entries[1].conditions[1].gleason_score # None
    /\ as_dict.val.entries[1].conditions[1].additional_notes # None
    /\ as_dict.val.entries[1].conditions[1].is_metastatic = None

\* thread t has its returned value in hand
Returned(t) == invocations[t].pc = "returned"

\* what the call of thread t returns or raises when it runs alone
RunAlone(t) ==
    IF invocations[t].function = "parse_test_notation"
    THEN parse_test_notation(invocations[t].notation, None, None)
    ELSE [exc |-> validate_notation(invocations[t].notation).exc,
          val |-> validate_notation(invocations[t].notation).val]

\* C22: whatever the interleaving, every invocation returns what its call
\* returns when run alone, no list object belongs to the results of two
\* invocations in flight, and the module-level dicts keep the contents they
\* were loaded with.
C22_InterleavingsAsAlone ==
    /\ \A t \in Threads : Returned(t) => invocations[t].out = Some(RunAlone(t))
    /\ \A t, u \in Threads :
          t # u /\ invocations[t].result # None /\ invocations[u].result # None =>
              {invocations[t].result[1].entries, invocations[t].result[1].parse_errors}
                  \cap {invocations[u].result[1].entries,
                        invocations[u].result[1].parse_errors} = {}
    /\ tables = LoadedTables

\* C22 witness: thread 1 has returned a result with two entries; it entered
\* after thread 2, which is still in its loop with one entry appended.
C22_Witness ==
    /\ Returned(1)
    /\ invocations[1].function = "parse_test_notation"
    /\ Len(invocations[1].out[1].val.entries) = 2
    /\ invocations[2].pc = "loop"
    /\ invocations[2].k = 2
    /\ invocations[2].serial < invocations[1].serial

\* C23: every value parse_test_notation returns for a notation equals the
\* first value it returned for that notation, whatever was called in
\* between.
C23_SameCallSameResult ==
    \A t \in Threads :
        Returned(t) /\ invocations[t].function = "parse_test_notation" =>
            /\ CallOf(t) \in DOMAIN first_result
            /\ invocations[t].out = Some(first_result[CallOf(t)].out)

\* C23 witness: thread 1 holds the two entries of its second parse of a
\* notation; between its two calls thread 2 entered with another notation.
C23_Witness ==
    /\ Returned(1)
    /\ invocations[1].function = "parse_test_notation"
    /\ Len(invocations[1].out[1].val.entries) = 2
    /\ first_result[CallOf(1)].serial < invocations[2].serial
    /\ invocations[2].serial < invocations[1].serial
    /\ invocations[2].notation # invocations[1].notation

\* C24: in every result parse_test_notation returns, parse_errors is
\* non-empty exactly when entries is empty, parse_errors holds at most one
\* string, and a non-empty remainder has left one entry per segment of the
\* splitter.
C24_ErrorsIffNoEntries ==
    ParseReturned =>
        /\ parsed.val.parse_errors # <<>> <=> Entries = <<>>
        /\ Len(parsed.val.parse_errors) <= 1
        /\ ~IsBlank(notation) /\ Remainder # <<>> =>
               /\ SegmentsOf # <<>>
               /\ Len(Entries) = Len(SegmentsOf)

\* C24 witness: a result with two entries, one from a segment without
\* relationship token, and no parse error.
C24_Witness ==
    /\ ParseReturned
    /\ Len(Entries) = 2
    /\ parsed.val.parse_errors = <<>>
    /\ \E k \in 1..2 : RelationshipMatches(WithoutSame(SegmentsOf[k])) = {}
    /\ \E k \in 1..2 : RelationshipMatches(WithoutSame(SegmentsOf[k])) # {}

\* C25: in every report validate_notation returns, valid is false exactly
\* when 'errors' is non-empty, 'errors' holds at most one string, and
\* 'parsed' is non-null exactly when valid is true.
C25_ReportShape ==
    ValidateReturned =>
        /\ ~report.val.valid <=> report.val.errors # <<>>
        /\ Len(report.val.errors) <= 1
        /\ report.val.parsed # None <=> report.val.valid

\* C25 witness: a valid report with a warning and a parsed mapping, after
\* the validator has run the parser and the serializer.
C25_Witness ==
    /\ ValidateReturned
    /\ report.val.valid
    /\ report.val.errors = <<>>
    /\ report.val.warnings # <<>>
    /\ report.val.parsed # None
    /\ calls = <<"validate_notation", "parse_test_notation", "notation_to_dict">>

\* C26: in every entry parse_test_notation returns, relationship is one of
\* PHX, FDR, SDR, TDR, PATIENT in upper case, relationship_type is its
\* RELATIONSHIP_MAP image, and relationship_type is never 'unknown'.
C26_RelationshipIsToken ==
    ParseReturned =>
        \A k \in 1..Len(Entries) :
            /\ Entries[k].relationship \in Range(RELATIONSHIP_TOKENS)
            /\ Entries[k].relationship \in DOMAIN RELATIONSHIP_MAP
            /\ Entries[k].relationship_type = RELATIONSHIP_MAP[Entries[k].relationship]
            /\ Entries[k].relationship_type # "unknown"

\* the required gate items of the cycle that are not complete
PendingRequired(cycle_id) ==
    {k \in 1..Len(pre_uat_gate_items) :
        /\ pre_uat_gate_items[k].cycle_id = cycle_id
        /\ pre_uat_gate_items[k].is_required = 1
        /\ pre_uat_gate_items[k].is_complete # 1}

\* the gate fields of a row of uat_cycles
GateFields(row) ==
    <<row.pre_uat_gate_passed, row.pre_uat_gate_signed_by, row.pre_uat_gate_signed_date,
      row.pre_uat_gate_notes>>

\* C27: a sign_off_gate call returns success or touches a cycle's gate
\* fields only when no required gate item of the cycle is incomplete at the
\* time of the call; otherwise it returns (False, message) and leaves the
\* gate fields of every cycle and the audit history as they were.
C27_SignOffOnlyWhenReady ==
    [][db_call'.method = "sign_off_gate" =>
           IF PendingRequired(db_call'.args[1]) = {}
           THEN /\ db_call'.returned[1] = TRUE
                /\ db_call'.args[1] \in DOMAIN uat_cycles =>
                       uat_cycles'[db_call'.args[1]].pre_uat_gate_passed = 1
           ELSE /\ db_call'.returned[1] = FALSE
                /\ db_call'.returned[2] # <<>>
                /\ DOMAIN uat_cycles' = DOMAIN uat_cycles
                /\ \A c \in DOMAIN uat_cycles :
                       GateFields(uat_cycles'[c]) = GateFields(uat_cycles[c])
                /\ audit_history' = audit_history]_vars

\* C27 witness: sign_off_gate has refused a cycle with one required item
\* pending and the others complete; the gate is not passed and the audit
\* history holds the creation only.
C27_Witness ==
    /\ db_call.method = "sign_off_gate"
    /\ db_call.returned = <<FALSE, <<"1", " ", "r", "e", "q", "u", "i", "r", "e", "d", " ", "i", "t", "e", "m", "(", "s", ")", " ", "s", "t", "i", "l", "l", " ", "p", "e", "n", "d", "i", "n", "g">>>>
    /\ db_call.args[1] \in DOMAIN uat_cycles
    /\ Cardinality(PendingRequired(db_call.args[1])) = 1
    /\ uat_cycles[db_call.args[1]].pre_uat_gate_passed = 0
    /\ uat_cycles[db_call.args[1]].pre_uat_gate_signed_by = None
    /\ Len(audit_history) = 1

\* C28: in every state create_cycle, update_gate_item and sign_off_gate
\* calls lead to, a cycle whose pre_uat_gate_passed flag is set has every
\* required gate item complete.
C28_PassedGateHasNoPending ==
    \A c \in DOMAIN uat_cycles :
        uat_cycles[c].pre_uat_gate_passed = 1 => PendingRequired(c) = {}

\* the decisions the claim names
ClaimedDecisions == {<<"g", "o">>, <<"c", "o", "n", "d", "i", "t", "i", "o", "n", "a", "l", "_", "g", "o">>, <<"n", "o", "_", "g", "o">>}

\* C29: record_go_nogo_decision with a decision outside go, conditional_go,
\* no_go returns (False, message) and changes neither the cycles nor the
\* audit history; with one of the three it returns success, logs the
\* decision, records decision, signer and notes in the cycle, and sets the
\* cycle status to 'complete' for 'go' while leaving it as it was for
\* 'conditional_go' and 'no_go'.
C29_GoNogoDecision ==
    [][db_call'.method = "record_go_nogo_decision" =>
           IF db_call'.args[2] \notin ClaimedDecisions
           THEN /\ db_call'.returned[1] = FALSE
                /\ db_call'.returned[2] # <<>>
                /\ uat_cycles' = uat_cycles
                /\ audit_history' = audit_history
           ELSE /\ db_call'.returned[1] = TRUE
                /\ Len(audit_history') = Len(audit_history) + 1
                /\ audit_history'[Len(audit_history')].new_value = Some(db_call'.args[2])
                /\ db_call'.args[1] \in DOMAIN uat_cycles =>
                       /\ uat_cycles'[db_call'.args[1]].go_nogo_decision =
                              Some(db_call'.args[2])
                       /\ uat_cycles'[db_call'.args[1]].go_nogo_signed_by =
                              Some(db_call'.args[3])
                       /\ uat_cycles'[db_call'.args[1]].status =
                              IF db_call'.args[2] = <<"g", "o">> THEN "complete"
                              ELSE uat_cycles[db_call'.args[1]].status]_vars

\* C29 witness: 'no_go' recorded for a cycle that an earlier 'go' had set
\* to 'complete': the decision is replaced and the status stays.
C29_Witness ==
    /\ db_call.method = "record_go_nogo_decision"
    /\ db_call.args[2] = <<"n", "o", "_", "g", "o">>
    /\ db_call.returned = <<TRUE, <<"N", "O", "-", "G", "O", " ", "-", " ", "L", "a", "u", "n", "c", "h", " ", "b", "l", "o", "c", "k", "e", "d">>>>
    /\ db_call.args[1] \in DOMAIN uat_cycles
    /\ uat_cycles[db_call.args[1]].go_nogo_decision = Some(<<"n", "o", "_", "g", "o">>)
    /\ uat_cycles[db_call.args[1]].status = "complete"
    /\ Len(audit_history) = 3

\* the results of the file of the last import that name a test and carry
\* the status 'Not Run' or 'Not_Run'
NotRunResults(data) ==
    {k \in 1..Len(Get(data, "results", <<>>)) :
        /\ Present(Get(data.results[k], "test_id", None))
        /\ StatusOf(data.results[k]) \in {<<"N", "o", "t", " ", "R", "u", "n">>, <<"N", "o", "t", "_", "R", "u", "n">>}}

\* the results of the file that name test t and carry a status
ResultsFor(data, t) ==
    {k \in 1..Len(Get(data, "results", <<>>)) :
        /\ Get(data.results[k], "test_id", None) = t
        /\ Present(StatusOf(data.results[k]))}

\* the call is a partial sync: --partial, or a sync_type of a progress sync
PartialSync(data, partial) ==
    partial \/ Get(data, "sync_type", None) \in {<<"a", "u", "t", "o", "_", "o", "p", "e", "n">>, <<"a", "u", "t", "o", "_", "1", "0", "p", "m">>, <<"m", "a", "n", "u", "a", "l">>}

\* C30: a partial sync (partial = True, or sync_type auto_open, auto_10pm or
\* manual) counts every result of a test whose incoming status is 'Not Run'
\* or 'Not_Run' in 'skipped', leaves the row of a test unchanged when every
\* result the file holds for it is such a result, and writes such a status
\* into no row; an import that is not a partial sync writes the incoming
\* 'Not Run' or 'Not_Run' of the last result for a test into the row
C30_PartialSyncSkipsNotRun ==
    [][import_call'.method = "import_results" /\ Get(import_call'.args[1], "results", <<>>) # <<>>
          => IF PartialSync(import_call'.args[1], import_call'.args[2])
             THEN /\ import_call'.returned.skipped
                        = Cardinality(NotRunResults(import_call'.args[1]))
                  /\ \A t \in DOMAIN uat_test_cases :
                        /\ ResultsFor(import_call'.args[1], t)
                                \subseteq NotRunResults(import_call'.args[1])
                              => uat_test_cases'[t] = uat_test_cases[t]
                        /\ uat_test_cases'[t] # uat_test_cases[t]
                              => uat_test_cases'[t].test_status
                                     \notin {<<"N", "o", "t", " ", "R", "u", "n">>, <<"N", "o", "t", "_", "R", "u", "n">>}
             ELSE \A t \in DOMAIN uat_test_cases :
                     \A k \in ResultsFor(import_call'.args[1], t) \cap NotRunResults(import_call'.args[1]) :
                        (\A j \in ResultsFor(import_call'.args[1], t) : j <= k)
                            => uat_test_cases'[t].test_status
                                   = StatusOf(import_call'.args[1].results[k])]_vars

\* C30 witness: a progress sync detected from its sync_type has skipped the
\* 'Not Run' result of a test whose recorded pass is still stored
C30_Witness ==
    /\ import_call.method = "import_results"
    /\ import_call.args[2] = FALSE
    /\ Get(import_call.args[1], "sync_type", None) = <<"m", "a", "n", "u", "a", "l">>
    /\ \E k \in NotRunResults(import_call.args[1]) :
          import_call.args[1].results[k].test_id = <<"T", "1">>
    /\ import_call.returned.skipped >= 1
    /\ uat_test_cases[<<"T", "1">>].test_status = <<"P", "a", "s", "s">>

====
